---- MODULE Spec2Model ----
(***************************************************************************)
(* express-jobly: the partial-update SQL helper (helpers/sql.js) and the   *)
(* authentication / authorization middleware (middleware/auth.js).         *)
(*                                                                         *)
(* JavaScript strings are sequences of one-character strings, so that      *)
(* template literals, join, replace and trim are computed and can be       *)
(* parsed back.  A JavaScript value is a record [t, s]: its type tag and   *)
(* its text.                                                               *)
(***************************************************************************)
EXTENDS Integers, Sequences, FiniteSets, TLC

VARIABLES
  dataToUpdate,   \* sql.js: the first argument, an object as its entries in iteration order
  jsToSql,        \* sql.js: the second argument, own properties key -> column name
  returned,       \* what each call of sqlForPartialUpdate on these arguments produced
  calls,          \* number of calls of sqlForPartialUpdate made so far in the process
  otherKind,      \* how the last call made with other arguments ended
  req,            \* auth.js: the request, [headers, params]
  resLocalsUser,  \* auth.js: res.locals.user
  gate,           \* the authorization middleware of the matched route
  nextCalls,      \* the calls of next made for this request, in order
  paramsRead,     \* whether req.params was read for this request
  pc,             \* how far the request has come
  served,         \* number of requests completed before this one
  route,          \* the route the request matched
  reqBody,        \* req.body
  res,            \* the response sent, status 0 while none is
  db,             \* the database: a set of rows per table
  lastCall,       \* the last call of a model method: arguments, queries, outcome
  ops,            \* number of model method calls made so far
  running         \* the model method calls in flight, each with how far it has come

sqlVars == <<dataToUpdate, jsToSql, returned, calls, otherKind>>

authVars == <<req, resLocalsUser, gate, nextCalls, paramsRead, pc, served>>

modelVars == <<db, lastCall, ops, running>>

routeVars == <<route, reqBody, res>>

vars == <<dataToUpdate, jsToSql, returned, calls, otherKind,
          req, resLocalsUser, gate, nextCalls, paramsRead, pc, served,
          route, reqBody, res, db, lastCall, ops, running>>

----------------------------------------------------------------------------
(* Bounds *)

MaxKeys == 3      \* most keys in dataToUpdate
MaxCalls == 2     \* most calls with the arguments under observation
MaxOther == 1     \* most calls with other arguments in between
MaxRequests == 2  \* most requests served one after the other
MaxPad == 1       \* most spaces around the token in an authorization header
MaxFields == 2    \* most fields in the data of a model update
MaxOps == 2       \* most model method calls one after the other
MaxConcurrent == 2 \* most model method calls in flight at once
MaxArrivals == 2  \* most requests one after the other through the routes

----------------------------------------------------------------------------
(* JavaScript values *)

Undefined == [t |-> "undefined", s |-> <<>>]
Null == [t |-> "null", s |-> <<>>]
JsString(chars) == [t |-> "string", s |-> chars]
JsTrue == [t |-> "boolean", s |-> <<"true">>]
JsFalse == [t |-> "boolean", s |-> <<"false">>]
JsObject(props) == [t |-> "object", s |-> <<>>, p |-> props]

\* obj[name] for an object: the property, or undefined when there is none
Get(obj, name) == IF name \in DOMAIN obj.p THEN obj.p[name] ELSE Undefined

\* a === b
StrictEquals(a, b) == a.t = b.t /\ a.s = b.s

\* ToBoolean, as applied by !, && , || and if
Truthy(v) ==
  CASE v.t = "undefined" -> FALSE
    [] v.t = "null" -> FALSE
    [] v.t = "string" -> v.s # <<>>
    [] v.t = "boolean" -> v.s = <<"true">>
    [] OTHER -> TRUE

\* a || b
JsOr(a, b) == IF Truthy(a) THEN a ELSE b

\* a && b
JsAnd(a, b) == IF Truthy(a) THEN b ELSE a

\* String(n) for a non-negative integer
RECURSIVE Decimal(_)
Decimal(n) ==
  LET d == n % 10
      c == CASE d = 0 -> "0" [] d = 1 -> "1" [] d = 2 -> "2" [] d = 3 -> "3"
             [] d = 4 -> "4" [] d = 5 -> "5" [] d = 6 -> "6" [] d = 7 -> "7"
             [] d = 8 -> "8" [] OTHER -> "9"
  IN IF n < 10 THEN <<c>> ELSE Decimal(n \div 10) \o <<c>>

\* Array.prototype.join
RECURSIVE Join(_, _)
Join(arr, sep) ==
  IF Len(arr) = 0 THEN <<>>
  ELSE IF Len(arr) = 1 THEN arr[1]
  ELSE arr[1] \o sep \o Join(Tail(arr), sep)

----------------------------------------------------------------------------
(* helpers/sql.js *)

\* Object.keys(obj): the own keys in iteration order
ObjectKeys(obj) == [i \in 1..Len(obj) |-> obj[i].key]

\* Object.values(obj): the own values in the same order
ObjectValues(obj) == [i \in 1..Len(obj) |-> obj[i].value]

\* jsToSql[colName]: the entry, or undefined when there is none
Lookup(map, colName) ==
  IF colName \in DOMAIN map THEN JsString(map[colName]) ELSE Undefined

\* new BadRequestError("No data")
BadRequestNoData ==
  [kind |-> "throw", error |-> "BadRequestError", message |-> "No data"]

\* keys.length === 0
NoData_never(keys) == FALSE

NoData(keys) == Len(keys) = 0

\* jsToSql[colName] || colName
ColumnName(map, colName) == JsOr(Lookup(map, colName), JsString(colName)).s

\* idx + 1, idx being the 0-based array index of the key
PlaceholderIndex_counter(idx) == calls + idx + 1

PlaceholderIndex(idx) == idx + 1

\* `"${jsToSql[colName] || colName}"=$${idx + 1}`
Fragment(map, colName, idx) ==
  <<"\"">> \o ColumnName(map, colName) \o <<"\"", "=", "$">>
    \o Decimal(PlaceholderIndex(idx))

\* Object.keys(dataToUpdate).map((colName, idx) => ...)
Cols_interpolated(data, map) ==
  [i \in 1..Len(data) |->
     <<"\"">> \o ColumnName(map, data[i].key) \o <<"\"", "=", "'">>
       \o data[i].value.s \o <<"'">>]

Cols(data, map) ==
  LET keys == ObjectKeys(data)
  IN [i \in 1..Len(keys) |-> Fragment(map, keys[i], i - 1)]

\* values: Object.values(dataToUpdate)
ValuesOf_reversed(obj) ==
  [i \in 1..Len(obj) |-> obj[Len(obj) + 1 - i].value]

ValuesOf_dropLast(obj) ==
  [i \in 1..(Len(obj) - 1) |-> obj[i].value]

ValuesOf(obj) == ObjectValues(obj)

sqlForPartialUpdate(data, map) ==
  LET keys == ObjectKeys(data)
  IN IF NoData(keys) THEN BadRequestNoData
     ELSE [kind |-> "return",
           setCols |-> Join(Cols(data, map), <<",", " ">>),
           values |-> ValuesOf(data)]

----------------------------------------------------------------------------
(* Reading a SET clause back *)

StartsWith(str, prefix) ==
  Len(str) >= Len(prefix) /\ SubSeq(str, 1, Len(prefix)) = prefix

\* String.prototype.split(sep), cur being the piece read so far
RECURSIVE SplitFrom(_, _, _)
SplitFrom(str, sep, cur) ==
  IF str = <<>> THEN <<cur>>
  ELSE IF StartsWith(str, sep)
       THEN <<cur>> \o SplitFrom(SubSeq(str, Len(sep) + 1, Len(str)), sep, <<>>)
       ELSE SplitFrom(Tail(str), sep, Append(cur, Head(str)))

FragmentsOf(setCols) == SplitFrom(setCols, <<",", " ">>, <<>>)

IsDigit(c) == c \in {"0", "1", "2", "3", "4", "5", "6", "7", "8", "9"}

DigitValue(c) ==
  CASE c = "0" -> 0 [] c = "1" -> 1 [] c = "2" -> 2 [] c = "3" -> 3
    [] c = "4" -> 4 [] c = "5" -> 5 [] c = "6" -> 6 [] c = "7" -> 7
    [] c = "8" -> 8 [] OTHER -> 9

RECURSIVE ParseDecimal(_)
ParseDecimal(ds) ==
  IF ds = <<>> THEN 0
  ELSE 10 * ParseDecimal(SubSeq(ds, 1, Len(ds) - 1)) + DigitValue(ds[Len(ds)])

\* position of the $ of a fragment "<column>"=$<digits>, 0 when it has none
DollarAt(f) ==
  IF \E p \in 1..Len(f) : f[p] = "$"
  THEN CHOOSE p \in 1..Len(f) :
         f[p] = "$" /\ \A q \in (p + 1)..Len(f) : f[q] # "$"
  ELSE 0

IsFragment(f) ==
  LET p == DollarAt(f)
  IN /\ p >= 4 /\ p < Len(f)
     /\ f[1] = "\"" /\ f[p - 2] = "\"" /\ f[p - 1] = "="
     /\ \A q \in (p + 1)..Len(f) : IsDigit(f[q])
     /\ f[p + 1] # "0"

FragmentColumn(f) == SubSeq(f, 2, DollarAt(f) - 3)

FragmentPlaceholder(f) == ParseDecimal(SubSeq(f, DollarAt(f) + 1, Len(f)))

----------------------------------------------------------------------------
(* The inputs of sqlForPartialUpdate *)

\* field names as they arrive in a request body
FieldNames == {<<"a">>, <<"b", "C">>, <<"d">>}

\* column names a mapping table may hold; the empty string is a string
ColumnNames == {<<"b", "_", "c">>, <<>>}

FieldValues == {JsString(<<"v">>), Null}

\* sequences of entries with pairwise distinct keys, at most MaxKeys long
RECURSIVE ObjectsOfSize(_)
ObjectsOfSize(n) ==
  IF n = 0 THEN {<<>>}
  ELSE {Append(o, [key |-> k, value |-> v]) :
          o \in ObjectsOfSize(n - 1),
          k \in FieldNames, v \in FieldValues}

HasDistinctKeys(obj) ==
  \A i, j \in 1..Len(obj) : obj[i].key = obj[j].key => i = j

DataObjects ==
  {o \in UNION {ObjectsOfSize(n) : n \in 0..MaxKeys} : HasDistinctKeys(o)}

NameMaps == UNION {[D -> ColumnNames] : D \in SUBSET FieldNames}

----------------------------------------------------------------------------
(* The database behind ../db: tables, statements and their execution *)

\* identifiers as they are spelled in SQL text and in update data
Ident ==
  [handle |-> <<"h", "a", "n", "d", "l", "e">>,
   name |-> <<"n", "a", "m", "e">>,
   description |-> <<"d", "e", "s", "c", "r", "i", "p", "t", "i", "o", "n">>,
   num_employees |-> <<"n", "u", "m", "_", "e", "m", "p", "l", "o", "y", "e", "e", "s">>,
   logo_url |-> <<"l", "o", "g", "o", "_", "u", "r", "l">>,
   numEmployees |-> <<"n", "u", "m", "E", "m", "p", "l", "o", "y", "e", "e", "s">>,
   logoUrl |-> <<"l", "o", "g", "o", "U", "r", "l">>,
   username |-> <<"u", "s", "e", "r", "n", "a", "m", "e">>,
   password |-> <<"p", "a", "s", "s", "w", "o", "r", "d">>,
   first_name |-> <<"f", "i", "r", "s", "t", "_", "n", "a", "m", "e">>,
   last_name |-> <<"l", "a", "s", "t", "_", "n", "a", "m", "e">>,
   email |-> <<"e", "m", "a", "i", "l">>,
   is_admin |-> <<"i", "s", "_", "a", "d", "m", "i", "n">>,
   firstName |-> <<"f", "i", "r", "s", "t", "N", "a", "m", "e">>,
   lastName |-> <<"l", "a", "s", "t", "N", "a", "m", "e">>,
   isAdmin |-> <<"i", "s", "A", "d", "m", "i", "n">>,
   id |-> <<"i", "d">>,
   title |-> <<"t", "i", "t", "l", "e">>,
   salary |-> <<"s", "a", "l", "a", "r", "y">>,
   equity |-> <<"e", "q", "u", "i", "t", "y">>,
   company_handle |-> <<"c", "o", "m", "p", "a", "n", "y", "_", "h", "a", "n", "d", "l", "e">>,
   job_id |-> <<"j", "o", "b", "_", "i", "d">>]

JsNumber(n) == [t |-> "number", s |-> Decimal(n)]
JsArray(elems) == [t |-> "array", s |-> <<>>, p |-> elems]

\* the columns the statements of the models name, per table
Columns(table) ==
  CASE table = "companies" ->
         {Ident.handle, Ident.name, Ident.description, Ident.num_employees, Ident.logo_url}
    [] table = "users" ->
         {Ident.username, Ident.password, Ident.first_name, Ident.last_name, Ident.email, Ident.is_admin}
    [] table = "jobs" ->
         {Ident.id, Ident.title, Ident.salary, Ident.equity, Ident.company_handle}
    [] OTHER -> {Ident.username, Ident.job_id}

TableNames == {"companies", "users", "jobs", "applications"}

\* a statement and its bound parameters, as passed to db.query; set and
\* wherePh are the parts of the text that the caller interpolates
Query(stmt, table, cols, set, whereCol, wherePh, returning, params) ==
  [stmt |-> stmt, table |-> table, cols |-> cols, set |-> set,
   whereCol |-> whereCol, wherePh |-> wherePh,
   returning |-> returning, params |-> params]

\* column AS "alias"
As(col, alias) == [col |-> col, as |-> alias]

\* $n: the number of a placeholder, 0 when the text is not one
PlaceholderOf(ph) ==
  IF Len(ph) >= 2 /\ ph[1] = "$" /\ \A i \in 2..Len(ph) : IsDigit(ph[i])
  THEN ParseDecimal(Tail(ph)) ELSE 0

\* a parameter as the driver binds it: undefined is sent as NULL
Bound(v) == IF v.t = "undefined" THEN Null ELSE v

\* the row object of a RETURNING or SELECT list
Project(row, returning) ==
  JsObject([a \in {returning[i].as : i \in DOMAIN returning} |->
              row[returning[CHOOSE i \in DOMAIN returning : returning[i].as = a].col]])

RECURSIVE SeqOf(_)
SeqOf(set) ==
  IF set = {} THEN <<>>
  ELSE LET x == CHOOSE y \in set : TRUE IN <<x>> \o SeqOf(set \ {x})

\* WHERE col = $n; a comparison with NULL selects nothing
\* the columns the statements treat as integers: a parameter reaches the
\* database as text and is read as the type of its column
IntegerColumns == {Ident.id, Ident.job_id}

\* text the database reads as an integer
IsIntegerText(v) ==
  /\ v.t \in {"number", "string"}
  /\ Len(v.s) > 0
  /\ \A i \in 1..Len(v.s) : IsDigit(v.s[i])

\* the value a column holds for a bound parameter
Stored(col, v) ==
  IF col \in IntegerColumns /\ IsIntegerText(Bound(v))
  THEN [t |-> "number", s |-> Bound(v).s]
  ELSE Bound(v)

\* a parameter the column cannot take: no integer for an integer column
Mistyped(col, v) ==
  col \in IntegerColumns /\ Bound(v).t # "null" /\ ~IsIntegerText(Bound(v))

Matches_any(row, q) == TRUE

Matches(row, q) ==
  \/ q.whereCol = <<>>
  \/ /\ PlaceholderOf(q.wherePh) \in 1..Len(q.params)
     /\ Bound(q.params[PlaceholderOf(q.wherePh)]).t # "null"
     /\ row[q.whereCol] = Stored(q.whereCol, q.params[PlaceholderOf(q.wherePh)])

\* the assignments of a SET clause: column and placeholder number of each
Assignments(set) ==
  LET frags == FragmentsOf(set)
  IN [i \in 1..Len(frags) |->
        IF IsFragment(frags[i])
        THEN [col |-> FragmentColumn(frags[i]), ph |-> FragmentPlaceholder(frags[i])]
        ELSE [col |-> <<>>, ph |-> 0]]

\* a statement the database rejects: unknown column, column assigned twice,
\* placeholder without a parameter
Rejected(q) ==
  \/ /\ q.whereCol # <<>>
     /\ \/ q.whereCol \notin Columns(q.table)
        \/ PlaceholderOf(q.wherePh) \notin 1..Len(q.params)
        \/ Mistyped(q.whereCol, q.params[PlaceholderOf(q.wherePh)])
  \/ \E i \in DOMAIN q.returning : q.returning[i].col \notin Columns(q.table)
  \/ /\ q.stmt = "INSERT"
     /\ \/ Len(q.cols) # Len(q.params)
        \/ \E i \in DOMAIN q.cols : q.cols[i] \notin Columns(q.table)
        \/ \E i \in DOMAIN q.cols : Mistyped(q.cols[i], q.params[i])
  \/ /\ q.stmt = "UPDATE"
     /\ \E asg \in {Assignments(q.set)} :
          \/ \E i \in DOMAIN asg :
               asg[i].col \notin Columns(q.table) \/ asg[i].ph \notin 1..Len(q.params)
          \/ \E i, j \in DOMAIN asg : i # j /\ asg[i].col = asg[j].col

InsertedRow(q) ==
  [c \in Columns(q.table) |->
     IF \E i \in DOMAIN q.cols : q.cols[i] = c
     THEN Stored(c, q.params[CHOOSE i \in DOMAIN q.cols : q.cols[i] = c])
     ELSE Null]

UpdatedRow_allColumns(row, q) ==
  LET asg == Assignments(q.set)
  IN [c \in DOMAIN row |-> Bound(q.params[asg[1].ph])]

UpdatedRow(row, q) ==
  LET asg == Assignments(q.set)
  IN [c \in DOMAIN row |->
        IF \E i \in DOMAIN asg : asg[i].col = c
        THEN Stored(c, q.params[asg[CHOOSE i \in DOMAIN asg : asg[i].col = c].ph])
        ELSE row[c]]

\* db.query(text, params): the database afterwards, the rows of the result,
\* and whether the statement failed
Execute(d, q) ==
  IF Rejected(q) THEN [db |-> d, rows |-> <<>>, failed |-> TRUE]
  ELSE
    LET table == d[q.table]
        hit == {r \in table : Matches(r, q)}
    IN CASE q.stmt = "SELECT" ->
              [db |-> d, failed |-> FALSE,
               rows |-> SeqOf({Project(r, q.returning) : r \in hit})]
         [] q.stmt = "INSERT" ->
              [db |-> [d EXCEPT ![q.table] = table \cup {InsertedRow(q)}],
               failed |-> FALSE,
               rows |-> <<Project(InsertedRow(q), q.returning)>>]
         [] q.stmt = "UPDATE" ->
              [db |-> [d EXCEPT ![q.table] =
                         (table \ hit) \cup {UpdatedRow(r, q) : r \in hit}],
               failed |-> FALSE,
               rows |-> SeqOf({Project(UpdatedRow(r, q), q.returning) : r \in hit})]
         [] OTHER ->
              [db |-> [d EXCEPT ![q.table] = table \ hit],
               failed |-> FALSE,
               rows |-> SeqOf({Project(r, q.returning) : r \in hit})]

\* bcrypt.hash(password, BCRYPT_WORK_FACTOR): a string no password equals
BcryptHash(password) == JsString(<<"$2b$">> \o password.s)

IsBcryptHash(v) == v.t = "string" /\ Len(v.s) >= 1 /\ v.s[1] = "$2b$"

\* bcrypt.compare(password, stored): false for a stored value that is no hash
BcryptCompare(password, stored) ==
  IsBcryptHash(stored) /\ stored = BcryptHash(password)

----------------------------------------------------------------------------
(* models/company.js and models/user.js *)

Return(value) == [kind |-> "return", error |-> "none", value |-> value]
Throw(error) == [kind |-> "throw", error |-> error, value |-> Undefined]

\* what a model method leaves behind: the database, its outcome, the
\* statements it issued and its data argument as the caller sees it afterwards
Done(d, out, queries, data) ==
  [db |-> d, out |-> out, queries |-> queries, data |-> data]

\* data[key] on update data
DataGet(data, key) ==
  IF \E i \in DOMAIN data : data[i].key = key
  THEN data[CHOOSE i \in DOMAIN data : data[i].key = key].value
  ELSE Undefined

\* data[key] = value on a key the data has
DataSet(data, key, value) ==
  [i \in DOMAIN data |->
     IF data[i].key = key THEN [key |-> key, value |-> value] ELSE data[i]]

\* delete obj[name]
DeleteProp(obj, name) ==
  JsObject([a \in DOMAIN obj.p \ {name} |-> obj.p[a]])

CompanyReturning ==
  <<As(Ident.handle, "handle"), As(Ident.name, "name"), As(Ident.description, "description"),
    As(Ident.num_employees, "numEmployees"), As(Ident.logo_url, "logoUrl")>>

UserReturning ==
  <<As(Ident.username, "username"), As(Ident.first_name, "firstName"),
    As(Ident.last_name, "lastName"), As(Ident.email, "email"), As(Ident.is_admin, "isAdmin")>>

\* if (duplicateCheck.rows[0])
Duplicate_never(rows) == FALSE

Duplicate(rows) == Len(rows) > 0

\* Company.create: SELECT handle FROM companies WHERE handle = $1
CompanyDuplicateCheck(data) ==
  Query("SELECT", "companies", <<>>, <<>>, Ident.handle, <<"$", "1">>,
        <<As(Ident.handle, "handle")>>, <<Get(data, "handle")>>)

\* Company.create: INSERT INTO companies ... RETURNING ...
CompanyInsert(data) ==
  Query("INSERT", "companies",
        <<Ident.handle, Ident.name, Ident.description, Ident.num_employees, Ident.logo_url>>,
        <<>>, <<>>, <<>>, CompanyReturning,
        <<Get(data, "handle"), Get(data, "name"), Get(data, "description"),
          Get(data, "numEmployees"), Get(data, "logoUrl")>>)

\* Company.create({ handle, name, description, numEmployees, logoUrl })
CompanyCreate(d, data) ==
  LET check == CompanyDuplicateCheck(data)
      checked == Execute(d, check)
      insert == CompanyInsert(data)
      inserted == Execute(d, insert)
  IN IF checked.failed THEN Done(d, Throw("DatabaseError"), <<check>>, data)
     ELSE IF Duplicate(checked.rows)
     THEN Done(d, Throw("BadRequestError"), <<check>>, data)
     ELSE IF inserted.failed
     THEN Done(d, Throw("DatabaseError"), <<check, insert>>, data)
     ELSE Done(inserted.db, Return(inserted.rows[1]), <<check, insert>>, data)

\* the jobs of the rows of the LEFT JOIN whose job_id is not null
JobsOf(d, handle) ==
  SeqOf({JsObject([id |-> j[Ident.id], title |-> j[Ident.title], salary |-> j[Ident.salary],
                   equity |-> j[Ident.equity], companyHandle |-> j[Ident.company_handle]]) :
           j \in {r \in d.jobs : r[Ident.company_handle] = handle}})

\* Company.get(handle)
CompanyGet(d, handle) ==
  LET select == Query("SELECT", "companies", <<>>, <<>>, Ident.handle, <<"$", "1">>,
                      CompanyReturning, <<handle>>)
      selected == Execute(d, select)
  IN IF selected.failed THEN Done(d, Throw("DatabaseError"), <<select>>, <<>>)
     ELSE IF Len(selected.rows) = 0
     THEN Done(d, Throw("NotFoundError"), <<select>>, <<>>)
     ELSE Done(d,
               Return(JsObject([handle |-> Get(selected.rows[1], "handle"),
                                name |-> Get(selected.rows[1], "name"),
                                description |-> Get(selected.rows[1], "description"),
                                numEmployees |-> Get(selected.rows[1], "numEmployees"),
                                logoUrl |-> Get(selected.rows[1], "logoUrl"),
                                jobs |-> JsArray(JobsOf(d, handle))])),
               <<select>>, <<>>)

\* the table Company.update passes to sqlForPartialUpdate
CompanyJsToSql ==
  (Ident.numEmployees :> Ident.num_employees) @@ (Ident.logoUrl :> Ident.logo_url)

\* "$" + (values.length + 1)
KeyVarIdx_last(values) == <<"$">> \o Decimal(Len(values))

KeyVarIdx(values) == <<"$">> \o Decimal(Len(values) + 1)

\* Company.update(handle, data)
CompanyUpdate(d, handle, data) ==
  LET built == sqlForPartialUpdate(data, CompanyJsToSql)
  IN IF built.kind = "throw" THEN Done(d, Throw(built.error), <<>>, data)
     ELSE
       LET update == Query("UPDATE", "companies", <<>>, built.setCols,
                           Ident.handle, KeyVarIdx(built.values), CompanyReturning,
                           built.values \o <<handle>>)
           updated == Execute(d, update)
       IN IF updated.failed THEN Done(d, Throw("DatabaseError"), <<update>>, data)
          ELSE IF Len(updated.rows) = 0
          THEN Done(updated.db, Throw("NotFoundError"), <<update>>, data)
          ELSE Done(updated.db, Return(updated.rows[1]), <<update>>, data)

CompanyRemove_keep(d, handle) == Done(d, Return(Undefined), <<>>, <<>>)

\* Company.remove(handle)
CompanyRemove(d, handle) ==
  LET delete == Query("DELETE", "companies", <<>>, <<>>, Ident.handle, <<"$", "1">>,
                      <<As(Ident.handle, "handle")>>, <<handle>>)
      deleted == Execute(d, delete)
  IN IF deleted.failed THEN Done(d, Throw("DatabaseError"), <<delete>>, <<>>)
     ELSE IF Len(deleted.rows) = 0
     THEN Done(deleted.db, Throw("NotFoundError"), <<delete>>, <<>>)
     ELSE Done(deleted.db, Return(Undefined), <<delete>>, <<>>)

\* User.authenticate(username, password)
UserAuthenticate(d, username, password) ==
  LET select == Query("SELECT", "users", <<>>, <<>>, Ident.username, <<"$", "1">>,
                      <<As(Ident.username, "username"), As(Ident.password, "password")>>
                        \o Tail(UserReturning),
                      <<username>>)
      selected == Execute(d, select)
  IN IF selected.failed THEN Done(d, Throw("DatabaseError"), <<select>>, <<>>)
     ELSE IF /\ Len(selected.rows) > 0
             /\ BcryptCompare(password, Get(selected.rows[1], "password"))
     THEN Done(d, Return(DeleteProp(selected.rows[1], "password")), <<select>>, <<>>)
     ELSE Done(d, Throw("UnauthorizedError"), <<select>>, <<>>)

\* the password User.register stores: bcrypt.hash(password, BCRYPT_WORK_FACTOR)
RegisteredPassword_plain(password) == password

RegisteredPassword(password) == BcryptHash(password)

\* User.register: SELECT username FROM users WHERE username = $1
UserDuplicateCheck(data) ==
  Query("SELECT", "users", <<>>, <<>>, Ident.username, <<"$", "1">>,
        <<As(Ident.username, "username")>>, <<Get(data, "username")>>)

\* User.register: INSERT INTO users ... RETURNING ..., with the hashed password
UserInsert(data) ==
  Query("INSERT", "users",
        <<Ident.username, Ident.password, Ident.first_name, Ident.last_name,
          Ident.email, Ident.is_admin>>,
        <<>>, <<>>, <<>>, UserReturning,
        <<Get(data, "username"), RegisteredPassword(Get(data, "password")),
          Get(data, "firstName"), Get(data, "lastName"),
          Get(data, "email"), Get(data, "isAdmin")>>)

\* User.register({ username, password, firstName, lastName, email, isAdmin })
UserRegister(d, data) ==
  LET check == UserDuplicateCheck(data)
      checked == Execute(d, check)
      insert == UserInsert(data)
      inserted == Execute(d, insert)
  IN IF checked.failed THEN Done(d, Throw("DatabaseError"), <<check>>, data)
     ELSE IF Duplicate(checked.rows)
     THEN Done(d, Throw("BadRequestError"), <<check>>, data)
     ELSE IF inserted.failed
     THEN Done(d, Throw("DatabaseError"), <<check, insert>>, data)
     ELSE Done(inserted.db, Return(inserted.rows[1]), <<check, insert>>, data)

\* User.get(username)
UserGet(d, username) ==
  LET select == Query("SELECT", "users", <<>>, <<>>, Ident.username, <<"$", "1">>,
                      UserReturning, <<username>>)
      selected == Execute(d, select)
      applied == Query("SELECT", "applications", <<>>, <<>>, Ident.username, <<"$", "1">>,
                       <<As(Ident.job_id, "job_id")>>, <<username>>)
      applications == Execute(d, applied)
  IN IF selected.failed THEN Done(d, Throw("DatabaseError"), <<select>>, <<>>)
     ELSE IF Len(selected.rows) = 0
     THEN Done(d, Throw("NotFoundError"), <<select>>, <<>>)
     ELSE IF applications.failed
     THEN Done(d, Throw("DatabaseError"), <<select, applied>>, <<>>)
     ELSE Done(d,
               Return(JsObject(selected.rows[1].p @@
                 [jobs |-> JsArray([i \in 1..Len(applications.rows) |->
                                      Get(applications.rows[i], "job_id")])])),
               <<select, applied>>, <<>>)

\* the table User.update passes to sqlForPartialUpdate
UserJsToSql ==
  (Ident.firstName :> Ident.first_name) @@ (Ident.lastName :> Ident.last_name)
    @@ (Ident.isAdmin :> Ident.is_admin)

\* if (data.password) data.password = await bcrypt.hash(data.password, ...)
HashedData(data) ==
  IF Truthy(DataGet(data, Ident.password))
  THEN DataSet(data, Ident.password, BcryptHash(DataGet(data, Ident.password)))
  ELSE data

\* User.update(username, data)
UserUpdate(d, username, data) ==
  LET hashed == HashedData(data)
      built == sqlForPartialUpdate(hashed, UserJsToSql)
  IN IF built.kind = "throw" THEN Done(d, Throw(built.error), <<>>, hashed)
     ELSE
       LET update == Query("UPDATE", "users", <<>>, built.setCols,
                           Ident.username, KeyVarIdx(built.values), UserReturning,
                           built.values \o <<username>>)
           updated == Execute(d, update)
       IN IF updated.failed THEN Done(d, Throw("DatabaseError"), <<update>>, hashed)
          ELSE IF Len(updated.rows) = 0
          THEN Done(updated.db, Throw("NotFoundError"), <<update>>, hashed)
          ELSE Done(updated.db, Return(DeleteProp(updated.rows[1], "password")),
                    <<update>>, hashed)

\* User.remove(username)
UserRemove(d, username) ==
  LET delete == Query("DELETE", "users", <<>>, <<>>, Ident.username, <<"$", "1">>,
                      <<As(Ident.username, "username")>>, <<username>>)
      deleted == Execute(d, delete)
  IN IF deleted.failed THEN Done(d, Throw("DatabaseError"), <<delete>>, <<>>)
     ELSE IF Len(deleted.rows) = 0
     THEN Done(deleted.db, Throw("NotFoundError"), <<delete>>, <<>>)
     ELSE Done(deleted.db, Return(Undefined), <<delete>>, <<>>)

\* the characters of the usernames and of the company names, in the order
\* ORDER BY compares them
CharOrder == <<"0", "1", "2", "A", "B", "a", "d", "m", "u">>

Rank(c) == CHOOSE i \in 1..Len(CharOrder) : CharOrder[i] = c

RECURSIVE TextBefore(_, _)
TextBefore(a, b) ==
  IF b = <<>> THEN FALSE
  ELSE IF a = <<>> THEN TRUE
  ELSE IF Head(a) # Head(b) THEN Rank(Head(a)) < Rank(Head(b))
  ELSE TextBefore(Tail(a), Tail(b))

\* ORDER BY u.username
RECURSIVE OrderedByUsername(_)
OrderedByUsername(rows) ==
  IF rows = {} THEN <<>>
  ELSE LET first == CHOOSE r \in rows :
                      \A o \in rows \ {r} : TextBefore(r[Ident.username].s, o[Ident.username].s)
       IN <<first>> \o OrderedByUsername(rows \ {first})

\* User.findAllWithAppliedJobs(); the order within ARRAY_AGG is the database's
UserFindAllWithAppliedJobs(d) ==
  LET ordered == OrderedByUsername(d.users)
      jobsOf(u) == SeqOf({a[Ident.job_id] : a \in {x \in d.applications :
                                                 x[Ident.username] = u[Ident.username]}})
  IN Done(d,
          Return(JsArray([i \in 1..Len(ordered) |->
                   JsObject(Project(ordered[i], UserReturning).p @@
                            [jobs |-> JsArray(jobsOf(ordered[i]))])])),
          <<Query("SELECT", "users", <<>>, <<>>, <<>>, <<>>, UserReturning, <<>>)>>,
          <<>>)

\* User.applyToJob(jobId, username)
UserApplyToJob(d, jobId, username) ==
  LET preCheck == Query("SELECT", "jobs", <<>>, <<>>, Ident.id, <<"$", "1">>,
                        <<As(Ident.id, "id")>>, <<jobId>>)
      job == Execute(d, preCheck)
      preCheck2 == Query("SELECT", "users", <<>>, <<>>, Ident.username, <<"$", "1">>,
                         <<As(Ident.username, "username")>>, <<username>>)
      user == Execute(d, preCheck2)
      insert == Query("INSERT", "applications", <<Ident.job_id, Ident.username>>,
                      <<>>, <<>>, <<>>, <<>>, <<jobId, username>>)
      inserted == Execute(d, insert)
  IN IF job.failed THEN Done(d, Throw("DatabaseError"), <<preCheck>>, <<>>)
     ELSE IF Len(job.rows) = 0
     THEN Done(d, Throw("NotFoundError"), <<preCheck>>, <<>>)
     ELSE IF user.failed
     THEN Done(d, Throw("DatabaseError"), <<preCheck, preCheck2>>, <<>>)
     ELSE IF Len(user.rows) = 0
     THEN Done(d, Throw("NotFoundError"), <<preCheck, preCheck2>>, <<>>)
     ELSE IF inserted.failed
     THEN Done(d, Throw("DatabaseError"), <<preCheck, preCheck2, insert>>, <<>>)
     ELSE Done(inserted.db, Return(jobId), <<preCheck, preCheck2, insert>>, <<>>)

\* ORDER BY name; rows of one name come in the order the database picks
RECURSIVE OrderedByName(_)
OrderedByName(rows) ==
  IF rows = {} THEN <<>>
  ELSE LET first == CHOOSE r \in rows :
                      \A o \in rows \ {r} : ~TextBefore(o[Ident.name].s, r[Ident.name].s)
       IN <<first>> \o OrderedByName(rows \ {first})

\* Company.findAll(): the method takes no parameter, so what the caller
\* passes is not read
CompanyFindAll(d) ==
  LET select == Query("SELECT", "companies", <<>>, <<>>, <<>>, <<>>, CompanyReturning, <<>>)
      ordered == OrderedByName(d.companies)
  IN Done(d,
          Return(JsArray([i \in 1..Len(ordered) |-> Project(ordered[i], CompanyReturning)])),
          <<select>>, <<>>)

----------------------------------------------------------------------------
(* models/job.js and helpers/tokens.js, as the routes and their tests use them *)

JobReturning ==
  <<As(Ident.id, "id"), As(Ident.title, "title"), As(Ident.salary, "salary"),
    As(Ident.equity, "equity"), As(Ident.company_handle, "companyHandle")>>

\* id SERIAL: the next number the table has not used
RECURSIVE FreeId(_, _)
FreeId(d, n) ==
  IF \E j \in d.jobs : j[Ident.id] = [t |-> "number", s |-> Decimal(n)]
  THEN FreeId(d, n + 1) ELSE n

\* Job.create({ title, salary, equity, companyHandle })
JobCreate(d, data) ==
  LET insert == Query("INSERT", "jobs",
                      <<Ident.id, Ident.title, Ident.salary, Ident.equity, Ident.company_handle>>,
                      <<>>, <<>>, <<>>, JobReturning,
                      <<[t |-> "number", s |-> Decimal(FreeId(d, 1))],
                        Get(data, "title"), Get(data, "salary"),
                        Get(data, "equity"), Get(data, "companyHandle")>>)
      inserted == Execute(d, insert)
  IN IF inserted.failed THEN Done(d, Throw("DatabaseError"), <<insert>>, data)
     ELSE Done(inserted.db, Return(inserted.rows[1]), <<insert>>, data)

\* Job.update(id, data)
JobUpdate(d, id, data) ==
  LET built == sqlForPartialUpdate(data, <<>>)
  IN IF built.kind = "throw" THEN Done(d, Throw(built.error), <<>>, data)
     ELSE
       LET update == Query("UPDATE", "jobs", <<>>, built.setCols,
                           Ident.id, KeyVarIdx(built.values), JobReturning,
                           built.values \o <<id>>)
           updated == Execute(d, update)
       IN IF updated.failed THEN Done(d, Throw("DatabaseError"), <<update>>, data)
          ELSE IF Len(updated.rows) = 0
          THEN Done(updated.db, Throw("NotFoundError"), <<update>>, data)
          ELSE Done(updated.db, Return(updated.rows[1]), <<update>>, data)

\* Job.remove(id)
JobRemove(d, id) ==
  LET delete == Query("DELETE", "jobs", <<>>, <<>>, Ident.id, <<"$", "1">>,
                      <<As(Ident.id, "id")>>, <<id>>)
      deleted == Execute(d, delete)
  IN IF deleted.failed THEN Done(d, Throw("DatabaseError"), <<delete>>, <<>>)
     ELSE IF Len(deleted.rows) = 0
     THEN Done(deleted.db, Throw("NotFoundError"), <<delete>>, <<>>)
     ELSE Done(deleted.db, Return(Undefined), <<delete>>, <<>>)

\* createToken(user): a token signed with SECRET_KEY over username and isAdmin
createToken(user) ==
  JsString(<<"jwt">> \o Get(user, "username").s \o Get(user, "isAdmin").s)

----------------------------------------------------------------------------
(* The database the calls start from, and the arguments they take *)

User1 == <<"u", "1">>
Admin == <<"a", "d", "m">>
Company1 == <<"c", "1">>
Company2 == <<"c", "2">>
NewUser == <<"u", "2">>
Password1 == JsString(<<"p">>)
Password2 == JsString(<<"q">>)

CompanyRow(handle, name, description, numEmployees, logoUrl) ==
  (Ident.handle :> handle) @@ (Ident.name :> name) @@ (Ident.description :> description)
    @@ (Ident.num_employees :> numEmployees) @@ (Ident.logo_url :> logoUrl)

UserRow(username, password, firstName, lastName, email, isAdmin) ==
  (Ident.username :> username) @@ (Ident.password :> password)
    @@ (Ident.first_name :> firstName) @@ (Ident.last_name :> lastName)
    @@ (Ident.email :> email) @@ (Ident.is_admin :> isAdmin)

JobRow(id, title, salary, equity, companyHandle) ==
  (Ident.id :> id) @@ (Ident.title :> title) @@ (Ident.salary :> salary)
    @@ (Ident.equity :> equity) @@ (Ident.company_handle :> companyHandle)

\* the rows the tests start from, cut down to one company, two users, one job
InitialDb ==
  [companies |->
     {CompanyRow(JsString(Company1), JsString(<<"A">>), JsString(<<"d">>),
                 JsNumber(1), Null)},
   users |->
     {UserRow(JsString(User1), BcryptHash(Password1), JsString(<<"F">>),
              JsString(<<"L">>), JsString(<<"e">>), JsFalse),
      UserRow(JsString(Admin), BcryptHash(Password2), JsString(<<"G">>),
              JsString(<<"L">>), JsString(<<"e">>), JsTrue)},
   jobs |->
     {JobRow(JsNumber(1), JsString(<<"t">>), JsNumber(1), JsString(<<"0">>),
             JsString(Company1))},
   applications |-> {}]

NoCall ==
  [op |-> "none", key |-> Undefined, arg |-> <<>>, data |-> <<>>,
   out |-> Return(Undefined), queries |-> <<>>, before |-> InitialDb]

EmptyDb == [companies |-> {}, users |-> {}, jobs |-> {}, applications |-> {}]

\* no model method is called: the tables play no part
NoModelCall ==
  /\ db = EmptyDb
  /\ lastCall = [op |-> "none"]
  /\ ops = 0
  /\ running = <<>>

Handles == {JsString(Company1), JsString(Company2)}
Usernames == {JsString(User1), JsString(NewUser)}

NewCompanies ==
  {JsObject([handle |-> h, name |-> JsString(<<"B">>), description |-> JsString(<<"d">>),
             numEmployees |-> n, logoUrl |-> Null]) :
     h \in Handles, n \in {JsNumber(2), Undefined}}

NewUsers ==
  {JsObject([username |-> u, password |-> pw, firstName |-> JsString(<<"H">>),
             lastName |-> JsString(<<"L">>), email |-> JsString(<<"e">>),
             isAdmin |-> JsFalse]) :
     u \in Usernames, pw \in {Password1, JsString(<<>>)}}

\* the fields an update may carry, each with the values tried
CompanyFields ==
  {[key |-> Ident.name, value |-> JsString(<<"B">>)],
   [key |-> Ident.numEmployees, value |-> JsNumber(2)],
   [key |-> Ident.numEmployees, value |-> Null]}

UserFields ==
  {[key |-> Ident.password, value |-> Password2],
   [key |-> Ident.password, value |-> JsString(<<>>)],
   [key |-> Ident.isAdmin, value |-> JsTrue]}

\* update data: at most MaxFields of the fields, each key once, in any order
RECURSIVE DataOver(_, _)
DataOver(fields, n) ==
  IF n = 0 THEN {<<>>}
  ELSE DataOver(fields, n - 1) \cup
       {Append(o, f) : o \in {x \in DataOver(fields, n - 1) : Len(x) = n - 1},
                       f \in fields}

CompanyData == {o \in DataOver(CompanyFields, MaxFields) : HasDistinctKeys(o)}
UserData == {o \in DataOver(UserFields, MaxFields) : HasDistinctKeys(o)}

----------------------------------------------------------------------------
(* Calls of sqlForPartialUpdate *)

NoResponse == [status |-> 0, body |-> Undefined]

\* no route is matched: the request, if any, goes to a middleware alone
NoRoute ==
  /\ route = "none"
  /\ reqBody = Undefined
  /\ res = NoResponse

NoRequest ==
  /\ req = [headers |-> Undefined, params |-> Undefined]
  /\ resLocalsUser = Undefined
  /\ gate = "none"
  /\ nextCalls = <<>>
  /\ paramsRead = FALSE
  /\ pc = "idle"
  /\ served = 0

InitSql ==
  /\ dataToUpdate \in DataObjects
  /\ jsToSql \in NameMaps
  /\ returned = <<>>
  /\ calls = 0
  /\ otherKind = "none"
  /\ NoRequest
  /\ NoRoute
  /\ NoModelCall

\* sqlForPartialUpdate(dataToUpdate, jsToSql): the function assigns to
\* neither argument and to no variable outside its body
Call ==
  /\ Len(returned) < MaxCalls
  /\ returned' = Append(returned,
                   [n |-> calls + 1, out |-> sqlForPartialUpdate(dataToUpdate, jsToSql)])
  /\ calls' = calls + 1
  /\ UNCHANGED <<dataToUpdate, jsToSql, otherKind>>
  /\ UNCHANGED authVars
  /\ UNCHANGED modelVars
  /\ UNCHANGED routeVars

\* a call in between with another update against the same table (the models
\* pass a literal table), whose result the caller drops
OtherData == {o \in DataObjects : Len(o) <= 1 /\ o # dataToUpdate}

CallOther ==
  /\ calls - Len(returned) < MaxOther
  /\ \E d \in OtherData : otherKind' = sqlForPartialUpdate(d, jsToSql).kind
  /\ calls' = calls + 1
  /\ UNCHANGED <<dataToUpdate, jsToSql, returned>>
  /\ UNCHANGED authVars
  /\ UNCHANGED modelVars
  /\ UNCHANGED routeVars

NextSql == Call \/ CallOther

SpecSql == InitSql /\ [][NextSql]_vars

----------------------------------------------------------------------------
(* middleware/auth.js *)

\* SECRET_KEY of ../config
SECRET_KEY == "SECRET_KEY"


Claims(username, isAdmin) ==
  JsObject([username |-> JsString(username), isAdmin |-> isAdmin])

\* The JSON web tokens a client may send.  A token is one symbol of the
\* header string; the table gives its payload, the key that signed it,
\* whether it parses as a JWT and whether it has expired.
TokenTable ==
  [tU1     |-> [payload |-> Claims(User1, JsFalse), key |-> SECRET_KEY,
                wellFormed |-> TRUE, expired |-> FALSE],
   tAdm    |-> [payload |-> Claims(Admin, JsTrue), key |-> SECRET_KEY,
                wellFormed |-> TRUE, expired |-> FALSE],
   tNoFlag |-> [payload |-> JsObject([username |-> JsString(User1)]),
                key |-> SECRET_KEY, wellFormed |-> TRUE, expired |-> FALSE],
   tForged |-> [payload |-> Claims(Admin, JsTrue), key |-> "other key",
                wellFormed |-> TRUE, expired |-> FALSE],
   tOld    |-> [payload |-> Claims(Admin, JsTrue), key |-> SECRET_KEY,
                wellFormed |-> TRUE, expired |-> TRUE],
   tJunk   |-> [payload |-> Undefined, key |-> "none",
                wellFormed |-> FALSE, expired |-> FALSE]]

Tokens == DOMAIN TokenTable

\* jwt.verify(token, secret): the payload, or a throw for a string that is
\* not a JWT, a signature made with another key, or an expired token
JwtVerify_anyKey(token, secret) ==
  IF /\ Len(token) = 1
     /\ token[1] \in Tokens
     /\ TokenTable[token[1]].wellFormed
  THEN [ok |-> TRUE, payload |-> TokenTable[token[1]].payload]
  ELSE [ok |-> FALSE, payload |-> Undefined]

JwtVerify(token, secret) ==
  IF /\ Len(token) = 1
     /\ token[1] \in Tokens
     /\ TokenTable[token[1]].wellFormed
     /\ TokenTable[token[1]].key = secret
     /\ ~TokenTable[token[1]].expired
  THEN [ok |-> TRUE, payload |-> TokenTable[token[1]].payload]
  ELSE [ok |-> FALSE, payload |-> Undefined]

\* authHeader.replace(/^[Bb]earer /, "")
StripBearer(str) ==
  IF /\ Len(str) >= 7
     /\ str[1] \in {"B", "b"}
     /\ SubSeq(str, 2, 7) = <<"e", "a", "r", "e", "r", " ">>
  THEN SubSeq(str, 8, Len(str))
  ELSE str

\* String.prototype.trim
RECURSIVE Trim(_)
Trim(str) ==
  IF str = <<>> THEN str
  ELSE IF Head(str) = " " THEN Trim(Tail(str))
  ELSE IF str[Len(str)] = " " THEN Trim(SubSeq(str, 1, Len(str) - 1))
  ELSE str

\* req.headers && req.headers.authorization
AuthHeader(request) ==
  JsAnd(request.headers,
        IF request.headers.t = "object"
        THEN Get(request.headers, "authorization") ELSE Undefined)

\* catch (err) { return next(); }: the arguments of the calls of next
OnVerifyError_propagate(err) == <<err>>

OnVerifyError(err) == <<"none">>

authenticateJWT_stored(request, user) ==
  LET verified == JwtVerify(Trim(StripBearer(AuthHeader(request).s)), SECRET_KEY)
  IN IF /\ Truthy(AuthHeader(request))
        /\ verified.ok
        /\ \E u \in db.users : u[Ident.username] = Get(verified.payload, "username")
     THEN [user |-> verified.payload, next |-> <<"none">>]
     ELSE [user |-> user, next |-> <<"none">>]

\* authenticateJWT: the value of res.locals.user afterwards and the
\* arguments of the calls of next it makes
authenticateJWT(request, user) ==
  LET authHeader == AuthHeader(request)
  IN IF Truthy(authHeader)
     THEN LET token == Trim(StripBearer(authHeader.s))
              verified == JwtVerify(token, SECRET_KEY)
          IN IF verified.ok
             THEN [user |-> verified.payload, next |-> <<"none">>]
             ELSE [user |-> user, next |-> OnVerifyError("JsonWebTokenError")]
     ELSE [user |-> user, next |-> <<"none">>]

\* ensureLoggedIn: !res.locals.user
LoggedInDenied(user) == ~Truthy(user)

ensureLoggedIn(user) ==
  IF LoggedInDenied(user) THEN <<"UnauthorizedError">> ELSE <<"none">>

\* ensureAdmin: !res.locals.user || !res.locals.user.isAdmin
AdminDenied_loggedInOnly(user) == ~Truthy(user)

AdminDenied(user) == ~Truthy(user) \/ ~Truthy(Get(user, "isAdmin"))

ensureAdmin_next(user) == <<"none">>

ensureAdmin(user) ==
  IF AdminDenied(user) THEN <<"UnauthorizedError">> ELSE <<"none">>

\* ensureCorrectUserOrAdmin: which operands of
\*   user && (user.isAdmin || user.username === req.params.username)
\* are evaluated, and what the condition or the evaluation itself throws
CorrectUserOrAdmin_adminOnly(request, user) ==
  IF ~Truthy(user) THEN [next |-> <<"UnauthorizedError">>, read |-> FALSE]
  ELSE IF Truthy(Get(user, "isAdmin")) THEN [next |-> <<"none">>, read |-> FALSE]
  ELSE [next |-> <<"UnauthorizedError">>, read |-> FALSE]

CorrectUserOrAdmin(request, user) ==
  IF ~Truthy(user) THEN [next |-> <<"UnauthorizedError">>, read |-> FALSE]
  ELSE IF Truthy(Get(user, "isAdmin")) THEN [next |-> <<"none">>, read |-> FALSE]
  ELSE IF request.params.t # "object" THEN [next |-> <<"TypeError">>, read |-> TRUE]
  ELSE IF StrictEquals(Get(user, "username"), Get(request.params, "username"))
       THEN [next |-> <<"none">>, read |-> TRUE]
       ELSE [next |-> <<"UnauthorizedError">>, read |-> TRUE]

----------------------------------------------------------------------------
(* Requests *)

RECURSIVE Spaces(_)
Spaces(n) == IF n = 0 THEN <<>> ELSE <<" ">> \o Spaces(n - 1)

Pads == {Spaces(n) : n \in 0..MaxPad}

\* the spaces before and after the token: on one side, or the same on both
Paddings ==
  {pad \in Pads \X Pads : pad[1] = <<>> \/ pad[2] = <<>> \/ pad[1] = pad[2]}

Schemes == {<<>>, <<"B", "e", "a", "r", "e", "r", " ">>,
            <<"b", "e", "a", "r", "e", "r", " ">>,
            <<"B", "E", "A", "R", "E", "R", " ">>,
            <<" ", "B", "e", "a", "r", "e", "r", " ">>}

\* authorization header values: a scheme, padding, at most one token
HeaderStrings ==
  {scheme \o pad[1] \o body \o pad[2] :
     scheme \in Schemes, pad \in Paddings,
     body \in {<<>>} \cup {<<tok>> : tok \in Tokens}}

HeaderObjects ==
  {Undefined, JsObject(<<>>)}
    \cup {JsObject([authorization |-> JsString(h)]) : h \in HeaderStrings}

ParamObjects ==
  {Undefined, JsObject(<<>>)}
    \cup {JsObject([username |-> JsString(u)]) : u \in {User1, Admin}}

Gates == {"none", "ensureLoggedIn", "ensureAdmin", "ensureCorrectUserOrAdmin"}

Requests == [headers : HeaderObjects, params : ParamObjects]

Receive(request, g) ==
  /\ req' = request
  /\ gate' = g
  /\ resLocalsUser' = Undefined
  /\ nextCalls' = <<>>
  /\ paramsRead' = FALSE
  /\ pc' = "received"

Init ==
  /\ dataToUpdate = <<>>
  /\ jsToSql = <<>>
  /\ returned = <<>>
  /\ calls = 0
  /\ otherKind = "none"
  /\ req \in Requests
  /\ gate \in Gates
  /\ resLocalsUser = Undefined
  /\ nextCalls = <<>>
  /\ paramsRead = FALSE
  /\ pc = "received"
  /\ served = 0
  /\ NoRoute
  /\ NoModelCall

NextCall(by, arg) == [by |-> by, err |-> arg]

AuthenticateJWT ==
  /\ pc = "received"
  /\ LET result == authenticateJWT(req, resLocalsUser)
     IN /\ resLocalsUser' = result.user
        /\ nextCalls' = nextCalls \o
             [i \in 1..Len(result.next) |-> NextCall("authenticateJWT", result.next[i])]
  /\ pc' = IF gate = "none" THEN "handler" ELSE "gate"
  /\ UNCHANGED <<req, gate, paramsRead, served>>
  /\ UNCHANGED sqlVars
  /\ UNCHANGED modelVars
  /\ UNCHANGED routeVars

\* after a gate: next() runs the route handler, next(err) the error handler
AfterGate_handler(args) == "handler"

AfterGate(args) == IF args = <<"none">> THEN "handler" ELSE "error"

EnsureLoggedIn ==
  /\ pc = "gate" /\ gate = "ensureLoggedIn"
  /\ LET args == ensureLoggedIn(resLocalsUser)
     IN /\ nextCalls' = nextCalls \o
             [i \in 1..Len(args) |-> NextCall("ensureLoggedIn", args[i])]
        /\ pc' = AfterGate(args)
  /\ UNCHANGED <<req, gate, resLocalsUser, paramsRead, served>>
  /\ UNCHANGED sqlVars
  /\ UNCHANGED modelVars
  /\ UNCHANGED routeVars

EnsureAdmin ==
  /\ pc = "gate" /\ gate = "ensureAdmin"
  /\ LET args == ensureAdmin(resLocalsUser)
     IN /\ nextCalls' = nextCalls \o
             [i \in 1..Len(args) |-> NextCall("ensureAdmin", args[i])]
        /\ pc' = AfterGate(args)
  /\ UNCHANGED <<req, gate, resLocalsUser, paramsRead, served>>
  /\ UNCHANGED sqlVars
  /\ UNCHANGED modelVars
  /\ UNCHANGED routeVars

EnsureCorrectUserOrAdmin ==
  /\ pc = "gate" /\ gate = "ensureCorrectUserOrAdmin"
  /\ LET result == CorrectUserOrAdmin(req, resLocalsUser)
     IN /\ nextCalls' = nextCalls \o
             [i \in 1..Len(result.next) |->
                NextCall("ensureCorrectUserOrAdmin", result.next[i])]
        /\ paramsRead' = result.read
        /\ pc' = AfterGate(result.next)
  /\ UNCHANGED <<req, gate, resLocalsUser, served>>
  /\ UNCHANGED sqlVars
  /\ UNCHANGED modelVars
  /\ UNCHANGED routeVars

\* the next request arrives with a res.locals of its own
NewRequest ==
  /\ pc \in {"handler", "error"}
  /\ served + 1 < MaxRequests
  /\ served' = served + 1
  /\ \E request \in Requests, g \in Gates : Receive(request, g)
  /\ UNCHANGED sqlVars
  /\ UNCHANGED modelVars
  /\ UNCHANGED routeVars

Next ==
  \/ AuthenticateJWT
  \/ EnsureLoggedIn
  \/ EnsureAdmin
  \/ EnsureCorrectUserOrAdmin
  \/ NewRequest

Spec == Init /\ [][Next]_vars

----------------------------------------------------------------------------
(* Calls of the model methods, one after the other *)

NoSqlCall ==
  /\ dataToUpdate = <<>>
  /\ jsToSql = <<>>
  /\ returned = <<>>
  /\ calls = 0
  /\ otherKind = "none"

InitModels ==
  /\ NoSqlCall
  /\ NoRequest
  /\ NoRoute
  /\ db = InitialDb
  /\ lastCall = NoCall
  /\ ops = 0
  /\ running = <<>>

\* the call op(key, arg) has run to its end with this result
Called(op, key, arg, result) ==
  /\ ops < MaxOps
  /\ db' = result.db
  /\ lastCall' = [op |-> op, key |-> key, arg |-> arg, data |-> result.data,
                  out |-> result.out, queries |-> result.queries, before |-> db]
  /\ ops' = ops + 1
  /\ running' = running
  /\ UNCHANGED sqlVars
  /\ UNCHANGED authVars
  /\ UNCHANGED routeVars

CallCompanyCreate ==
  \E data \in NewCompanies :
    Called("Company.create", Get(data, "handle"), data, CompanyCreate(db, data))

CallCompanyGet ==
  \E handle \in Handles :
    Called("Company.get", handle, <<>>, CompanyGet(db, handle))

CallCompanyUpdate ==
  \E handle \in Handles, data \in CompanyData :
    Called("Company.update", handle, data, CompanyUpdate(db, handle, data))

CallCompanyRemove ==
  \E handle \in Handles :
    Called("Company.remove", handle, <<>>, CompanyRemove(db, handle))

CallUserAuthenticate ==
  \E username \in Usernames, password \in {Password1, Password2, JsString(<<>>)} :
    Called("User.authenticate", username, password,
           UserAuthenticate(db, username, password))

CallUserRegister ==
  \E data \in NewUsers :
    Called("User.register", Get(data, "username"), data, UserRegister(db, data))

CallUserGet ==
  \E username \in Usernames :
    Called("User.get", username, <<>>, UserGet(db, username))

CallUserUpdate ==
  \E username \in Usernames, data \in UserData :
    Called("User.update", username, data, UserUpdate(db, username, data))

CallUserRemove ==
  \E username \in Usernames :
    Called("User.remove", username, <<>>, UserRemove(db, username))

NextModels ==
  \/ CallCompanyCreate
  \/ CallCompanyGet
  \/ CallCompanyUpdate
  \/ CallCompanyRemove
  \/ CallUserAuthenticate
  \/ CallUserRegister
  \/ CallUserGet
  \/ CallUserUpdate
  \/ CallUserRemove

SpecModels == InitModels /\ [][NextModels]_vars

----------------------------------------------------------------------------
(* schemas/*.json and jsonschema.validate, as the route tests show them *)

\* a schema: the properties a body must have, and the types each may have
CompanyNewSchema ==
  [required |-> {"handle", "name", "description"},
   types |-> [handle |-> {"string"}, name |-> {"string"}, description |-> {"string"},
              numEmployees |-> {"number"}, logoUrl |-> {"string"}]]

UserNewSchema ==
  [required |-> {"username", "firstName", "lastName", "password", "email"},
   types |-> [username |-> {"string"}, firstName |-> {"string"},
              lastName |-> {"string"}, password |-> {"string"},
              email |-> {"string"}, isAdmin |-> {"boolean"}]]

JobNewSchema ==
  [required |-> {"title", "companyHandle"},
   types |-> [title |-> {"string"}, salary |-> {"number"}, equity |-> {"string"},
              companyHandle |-> {"string"}]]

CompanyUpdateSchema ==
  (Ident.name :> {"string"}) @@ (Ident.description :> {"string"})
    @@ (Ident.numEmployees :> {"number"}) @@ (Ident.logoUrl :> {"string"})

UserUpdateSchema ==
  (Ident.firstName :> {"string"}) @@ (Ident.lastName :> {"string"})
    @@ (Ident.password :> {"string"}) @@ (Ident.email :> {"string"})

JobUpdateSchema ==
  (Ident.title :> {"string"}) @@ (Ident.salary :> {"number"}) @@ (Ident.equity :> {"string"})

\* companySearch.json: the filters of GET /companies, and no other property
CompanySearchSchema ==
  [minEmployees |-> {"integer"}, maxEmployees |-> {"integer"}, name |-> {"string"}]

\* the JSON schema type names a value answers to; NaN is no integer
TypesOf(v) ==
  IF v.t = "number" /\ IsIntegerText(v) THEN {"number", "integer"} ELSE {v.t}

\* validator.valid for the query of a search: no property is required
ValidSearch(q, schema) ==
  \A k \in DOMAIN q.p : k \in DOMAIN schema /\ TypesOf(q.p[k]) \cap schema[k] # {}

\* validator.valid for the body of a POST
ValidNew(data, schema) ==
  /\ data.t = "object"
  /\ schema.required \subseteq DOMAIN data.p
  /\ \A k \in DOMAIN data.p :
       k \in DOMAIN schema.types /\ data.p[k].t \in schema.types[k]

\* validator.valid for the body of a PATCH: no property is required
ValidUpdate(data, schema) ==
  \A i \in DOMAIN data :
    data[i].key \in DOMAIN schema /\ data[i].value.t \in schema[data[i].key]

----------------------------------------------------------------------------
(* routes/companies.js, routes/jobs.js, routes/users.js behind app.js *)

\* the routes that stand behind an authorization middleware
AdminRoutes ==
  {"POST /companies", "PATCH /companies/:handle", "DELETE /companies/:handle",
   "POST /jobs", "PATCH /jobs/:id", "DELETE /jobs/:id",
   "POST /users", "GET /users"}

UserRoutes ==
  {"GET /users/:username", "PATCH /users/:username", "DELETE /users/:username",
   "POST /users/:username/jobs/:id"}

\* the routes any request may use
OpenRoutes == {"GET /companies", "GET /companies/:handle"}

Routes == AdminRoutes \cup UserRoutes \cup OpenRoutes

\* the middleware the router puts before the handler
GateOf_adminOnly(r) == "ensureAdmin"

GateOf(r) ==
  CASE r \in AdminRoutes -> "ensureAdmin"
    [] r \in UserRoutes -> "ensureCorrectUserOrAdmin"
    [] OTHER -> "none"

Bearer == <<"B", "e", "a", "r", "e", "r", " ">>

\* the headers of the requests: no authorization header, or a bearer token
RouteHeaders ==
  {JsObject(<<>>)} \cup
  {JsObject([authorization |-> JsString(Bearer \o <<tok>>)]) :
     tok \in {"tU1", "tAdm", "tForged"}}

JobIds == {<<"1">>, <<"2">>}

\* req.params of a request on the route
ParamsOf(r) ==
  CASE r \in {"GET /companies/:handle", "PATCH /companies/:handle",
              "DELETE /companies/:handle"} ->
         {JsObject([handle |-> h]) : h \in Handles}
    [] r \in {"PATCH /jobs/:id", "DELETE /jobs/:id"} ->
         {JsObject([id |-> JsString(i)]) : i \in JobIds}
    [] r \in {"GET /users/:username", "PATCH /users/:username",
              "DELETE /users/:username"} ->
         {JsObject([username |-> u]) : u \in Usernames}
    [] r = "POST /users/:username/jobs/:id" ->
         {JsObject([username |-> u, id |-> JsString(i)]) :
            u \in Usernames, i \in JobIds}
    [] OTHER -> {JsObject(<<>>)}

\* req.query of a request on the route, as the query string gives it: every
\* value is a string
QueriesOf(r) ==
  IF r = "GET /companies"
  THEN {JsObject(<<>>),
        JsObject([minEmployees |-> JsString(<<"2">>)]),
        JsObject([maxEmployees |-> JsString(<<"1">>)]),
        JsObject([name |-> JsString(<<"b">>)]),
        JsObject([minEmployees |-> JsString(<<"1">>), maxEmployees |-> JsString(<<"2">>)]),
        JsObject([minEmployees |-> JsString(<<"2">>), maxEmployees |-> JsString(<<"1">>)]),
        JsObject([minEmployees |-> JsString(<<"x">>)])}
  ELSE {JsObject(<<>>)}

NewCompanyBody(handle) ==
  JsObject([handle |-> handle, name |-> JsString(<<"B">>),
            description |-> JsString(<<"d">>), numEmployees |-> JsNumber(2),
            logoUrl |-> JsString(<<"g">>)])

NewUserBody(username) ==
  JsObject([username |-> username, password |-> Password1,
            firstName |-> JsString(<<"H">>), lastName |-> JsString(<<"L">>),
            email |-> JsString(<<"e">>), isAdmin |-> JsFalse])

NewJobBody ==
  JsObject([title |-> JsString(<<"n">>), salary |-> JsNumber(2),
            equity |-> JsString(<<"0">>), companyHandle |-> JsString(Company1)])

\* req.body of a request on the route: bodies the schema takes and one it
\* does not (a required property missing, a property of the wrong type)
BodiesOf(r) ==
  CASE r = "POST /companies" ->
         {NewCompanyBody(h) : h \in Handles}
           \cup {JsObject([handle |-> JsString(Company2), numEmployees |-> JsNumber(2)])}
    [] r = "POST /users" ->
         {NewUserBody(u) : u \in Usernames}
           \cup {JsObject([username |-> JsString(NewUser)])}
    [] r = "POST /jobs" ->
         {NewJobBody, JsObject([salary |-> JsNumber(2)])}
    [] r = "PATCH /companies/:handle" ->
         {<<[key |-> Ident.name, value |-> JsString(<<"B">>)]>>, <<>>,
          <<[key |-> Ident.name, value |-> JsNumber(2)]>>}
    [] r = "PATCH /users/:username" ->
         {<<[key |-> Ident.firstName, value |-> JsString(<<"H">>)]>>,
          <<[key |-> Ident.password, value |-> Password2]>>,
          <<[key |-> Ident.firstName, value |-> JsNumber(2)]>>}
    [] r = "PATCH /jobs/:id" ->
         {<<[key |-> Ident.title, value |-> JsString(<<"n">>)]>>,
          <<[key |-> Ident.title, value |-> JsNumber(2)]>>}
    [] OTHER -> {Undefined}

\* +req.params.id, +q.minEmployees
UnaryPlus(v) ==
  IF IsIntegerText(v) THEN [t |-> "number", s |-> v.s]
  ELSE IF v.s = <<>> THEN [t |-> "number", s |-> <<"0">>]
  ELSE [t |-> "number", s |-> <<"NaN">>]

InitRoutes ==
  /\ NoSqlCall
  /\ NoRequest
  /\ NoRoute
  /\ db = InitialDb
  /\ lastCall = NoCall
  /\ ops = 0
  /\ running = <<>>

\* a request arrives and is matched to its route; the one before it, if
\* any, has been answered or was left without an answer
Arrive ==
  /\ \/ pc = "idle" /\ served' = served
     \/ pc \in {"sent", "unanswered"} /\ served + 1 < MaxArrivals /\ served' = served + 1
  /\ \E r \in Routes :
       \E h \in RouteHeaders, params \in ParamsOf(r), data \in BodiesOf(r),
          q \in QueriesOf(r) :
         /\ Receive([headers |-> h, params |-> params, query |-> q], GateOf(r))
         /\ route' = r
         /\ reqBody' = data
  /\ res' = NoResponse
  /\ UNCHANGED sqlVars
  /\ UNCHANGED modelVars

\* catch (err) { return next(err); } with no model call made
Refuse(error) ==
  /\ nextCalls' = Append(nextCalls, NextCall(route, error))
  /\ pc' = "error"
  /\ UNCHANGED <<req, gate, resLocalsUser, paramsRead, served, route, reqBody, res>>
  /\ UNCHANGED sqlVars
  /\ UNCHANGED modelVars

\* the handler after its model call: res.status(status).json(json) when the
\* call returned, next(err) when it threw; data is req.body afterwards
Respond(op, key, arg, result, data, status, json) ==
  /\ db' = result.db
  /\ lastCall' = [op |-> op, key |-> key, arg |-> arg, data |-> result.data,
                  out |-> result.out, queries |-> result.queries, before |-> db]
  /\ ops' = ops + 1
  /\ running' = running
  /\ reqBody' = data
  /\ IF result.out.kind = "throw"
     THEN /\ nextCalls' = Append(nextCalls, NextCall(route, result.out.error))
          /\ pc' = "error"
          /\ res' = res
     ELSE /\ nextCalls' = nextCalls
          /\ pc' = "sent"
          /\ res' = [status |-> status, body |-> json]
  /\ UNCHANGED <<req, gate, resLocalsUser, paramsRead, served, route>>
  /\ UNCHANGED sqlVars

\* POST /companies
PostCompanies ==
  /\ pc = "handler" /\ route = "POST /companies"
  /\ IF ~ValidNew(reqBody, CompanyNewSchema) THEN Refuse("BadRequestError")
     ELSE LET result == CompanyCreate(db, reqBody)
          IN Respond("Company.create", Get(reqBody, "handle"), reqBody, result,
                     reqBody, 201, JsObject([company |-> result.out.value]))

\* q.minEmployees = +q.minEmployees when the query has the property
Converted(q, name) ==
  IF name \in DOMAIN q.p
  THEN JsObject([k \in DOMAIN q.p |-> IF k = name THEN UnaryPlus(q.p[k]) ELSE q.p[k]])
  ELSE q

\* a > b on numbers: false when either is NaN
GreaterThan(a, b) ==
  IsIntegerText(a) /\ IsIntegerText(b) /\ ParseDecimal(a.s) > ParseDecimal(b.s)

\* q.minEmployees !== undefined && q.maxEmployees !== undefined
\*   && q.minEmployees > q.maxEmployees
MinAboveMax(q) ==
  /\ {"minEmployees", "maxEmployees"} \subseteq DOMAIN q.p
  /\ GreaterThan(q.p.minEmployees, q.p.maxEmployees)

\* an async handler throws before its try block: its promise is rejected and
\* no catch calls next. A router that takes the promise a handler returns
\* passes the error to next; one that does not leaves the request unanswered
ThrowOutsideTry(error) ==
  \/ /\ nextCalls' = Append(nextCalls, NextCall(route, error))
     /\ pc' = "error"
  \/ /\ nextCalls' = nextCalls
     /\ pc' = "unanswered"

\* GET /companies
GetCompanies ==
  /\ pc = "handler" /\ route = "GET /companies"
  /\ LET q == Converted(Converted(req.query, "minEmployees"), "maxEmployees")
         result == CompanyFindAll(db)
     IN /\ req' = [req EXCEPT !.query = q]
        /\ IF MinAboveMax(q)
           THEN /\ ThrowOutsideTry("BadRequestError")
                /\ UNCHANGED <<res, db, lastCall, ops>>
           ELSE IF ~ValidSearch(q, CompanySearchSchema)
           THEN /\ nextCalls' = Append(nextCalls, NextCall(route, "BadRequestError"))
                /\ pc' = "error"
                /\ UNCHANGED <<res, db, lastCall, ops>>
           ELSE /\ db' = result.db
                /\ lastCall' = [op |-> "Company.findAll", key |-> Undefined, arg |-> q,
                                data |-> result.data, out |-> result.out,
                                queries |-> result.queries, before |-> db]
                /\ ops' = ops + 1
                /\ nextCalls' = nextCalls
                /\ pc' = "sent"
                /\ res' = [status |-> 200,
                           body |-> JsObject([companies |-> result.out.value])]
  /\ UNCHANGED <<gate, resLocalsUser, paramsRead, served, route, reqBody, running>>
  /\ UNCHANGED sqlVars

\* GET /companies/:handle
GetCompany ==
  /\ pc = "handler" /\ route = "GET /companies/:handle"
  /\ LET result == CompanyGet(db, Get(req.params, "handle"))
     IN Respond("Company.get", Get(req.params, "handle"), <<>>, result,
                reqBody, 200, JsObject([company |-> result.out.value]))

\* PATCH /companies/:handle
PatchCompany ==
  /\ pc = "handler" /\ route = "PATCH /companies/:handle"
  /\ IF ~ValidUpdate(reqBody, CompanyUpdateSchema) THEN Refuse("BadRequestError")
     ELSE LET result == CompanyUpdate(db, Get(req.params, "handle"), reqBody)
          IN Respond("Company.update", Get(req.params, "handle"), reqBody, result,
                     result.data, 200, JsObject([company |-> result.out.value]))

\* DELETE /companies/:handle
DeleteCompany ==
  /\ pc = "handler" /\ route = "DELETE /companies/:handle"
  /\ LET result == CompanyRemove(db, Get(req.params, "handle"))
     IN Respond("Company.remove", Get(req.params, "handle"), <<>>, result,
                reqBody, 200, JsObject([deleted |-> Get(req.params, "handle")]))

\* POST /jobs
PostJobs ==
  /\ pc = "handler" /\ route = "POST /jobs"
  /\ IF ~ValidNew(reqBody, JobNewSchema) THEN Refuse("BadRequestError")
     ELSE LET result == JobCreate(db, reqBody)
          IN Respond("Job.create", Undefined, reqBody, result,
                     reqBody, 201, JsObject([job |-> result.out.value]))

PatchJob_unvalidated ==
  /\ pc = "handler" /\ route = "PATCH /jobs/:id"
  /\ LET result == JobUpdate(db, Get(req.params, "id"), reqBody)
     IN Respond("Job.update", Get(req.params, "id"), reqBody, result,
                result.data, 200, JsObject([job |-> result.out.value]))

\* PATCH /jobs/:id
PatchJob ==
  /\ pc = "handler" /\ route = "PATCH /jobs/:id"
  /\ IF ~ValidUpdate(reqBody, JobUpdateSchema) THEN Refuse("BadRequestError")
     ELSE LET result == JobUpdate(db, Get(req.params, "id"), reqBody)
          IN Respond("Job.update", Get(req.params, "id"), reqBody, result,
                     result.data, 200, JsObject([job |-> result.out.value]))

\* DELETE /jobs/:id
DeleteJob ==
  /\ pc = "handler" /\ route = "DELETE /jobs/:id"
  /\ LET result == JobRemove(db, Get(req.params, "id"))
     IN Respond("Job.remove", Get(req.params, "id"), <<>>, result,
                reqBody, 200, JsObject([deleted |-> UnaryPlus(Get(req.params, "id"))]))

\* POST /users
PostUsers ==
  /\ pc = "handler" /\ route = "POST /users"
  /\ IF ~ValidNew(reqBody, UserNewSchema) THEN Refuse("BadRequestError")
     ELSE LET result == UserRegister(db, reqBody)
          IN Respond("User.register", Get(reqBody, "username"), reqBody, result,
                     reqBody, 201,
                     JsObject([user |-> result.out.value,
                               token |-> createToken(result.out.value)]))

\* GET /users
GetUsers ==
  /\ pc = "handler" /\ route = "GET /users"
  /\ LET result == UserFindAllWithAppliedJobs(db)
     IN Respond("User.findAllWithAppliedJobs", Undefined, <<>>, result,
                reqBody, 200, JsObject([users |-> result.out.value]))

\* GET /users/:username
GetUser ==
  /\ pc = "handler" /\ route = "GET /users/:username"
  /\ LET result == UserGet(db, Get(req.params, "username"))
     IN Respond("User.get", Get(req.params, "username"), <<>>, result,
                reqBody, 200, JsObject([user |-> result.out.value]))

\* PATCH /users/:username
PatchUser ==
  /\ pc = "handler" /\ route = "PATCH /users/:username"
  /\ IF ~ValidUpdate(reqBody, UserUpdateSchema) THEN Refuse("BadRequestError")
     ELSE LET result == UserUpdate(db, Get(req.params, "username"), reqBody)
          IN Respond("User.update", Get(req.params, "username"), reqBody, result,
                     result.data, 200, JsObject([user |-> result.out.value]))

\* DELETE /users/:username
DeleteUser ==
  /\ pc = "handler" /\ route = "DELETE /users/:username"
  /\ LET result == UserRemove(db, Get(req.params, "username"))
     IN Respond("User.remove", Get(req.params, "username"), <<>>, result,
                reqBody, 200, JsObject([deleted |-> Get(req.params, "username")]))

\* POST /users/:username/jobs/:id: User.applyToJob(req.params.username, jobId)
PostUserJob ==
  /\ pc = "handler" /\ route = "POST /users/:username/jobs/:id"
  /\ LET jobId == UnaryPlus(Get(req.params, "id"))
         result == UserApplyToJob(db, Get(req.params, "username"), jobId)
     IN Respond("User.applyToJob", Get(req.params, "username"), jobId, result,
                reqBody, 200, JsObject([applied |-> jobId]))

\* the status of an error: the status of its class, 500 for any other
ErrorStatus(error) ==
  CASE error = "UnauthorizedError" -> 401
    [] error = "BadRequestError" -> 400
    [] error = "NotFoundError" -> 404
    [] OTHER -> 500

\* app.js: the generic error handler answers what was passed to next
ErrorHandler ==
  /\ pc = "error"
  /\ res' = [status |-> ErrorStatus(nextCalls[Len(nextCalls)].err),
             body |-> JsObject([error |-> JsString(<<nextCalls[Len(nextCalls)].err>>)])]
  /\ pc' = "sent"
  /\ UNCHANGED <<req, gate, resLocalsUser, nextCalls, paramsRead, served, route, reqBody>>
  /\ UNCHANGED sqlVars
  /\ UNCHANGED modelVars

NextRoutes ==
  \/ Arrive
  \/ AuthenticateJWT
  \/ EnsureAdmin
  \/ EnsureCorrectUserOrAdmin
  \/ PostCompanies
  \/ GetCompanies
  \/ GetCompany
  \/ PatchCompany
  \/ DeleteCompany
  \/ PostJobs
  \/ PatchJob
  \/ DeleteJob
  \/ PostUsers
  \/ GetUsers
  \/ GetUser
  \/ PatchUser
  \/ DeleteUser
  \/ PostUserJob
  \/ ErrorHandler

SpecRoutes == InitRoutes /\ [][NextRoutes]_vars

----------------------------------------------------------------------------
(* The middleware while the users of the tokens are removed and changed *)

\* the users the tokens were issued to
TokenUsers == {JsString(User1), JsString(Admin)}

\* the middleware a route for admins or for one user puts before its handler
RouteGates == {"ensureAdmin", "ensureCorrectUserOrAdmin"}

GateRequests ==
  [headers : RouteHeaders,
   params : {JsObject(<<>>)} \cup {JsObject([username |-> u]) : u \in TokenUsers}]

InitGates ==
  /\ NoSqlCall
  /\ NoRoute
  /\ db = InitialDb
  /\ lastCall = NoCall
  /\ ops = 0
  /\ running = <<>>
  /\ req \in GateRequests
  /\ gate \in RouteGates
  /\ resLocalsUser = Undefined
  /\ nextCalls = <<>>
  /\ paramsRead = FALSE
  /\ pc = "received"
  /\ served = 0

\* the next request arrives with a res.locals of its own
NextGateRequest ==
  /\ pc \in {"handler", "error"}
  /\ served + 1 < MaxArrivals
  /\ served' = served + 1
  /\ \E request \in GateRequests, g \in RouteGates : Receive(request, g)
  /\ UNCHANGED sqlVars
  /\ UNCHANGED modelVars
  /\ UNCHANGED routeVars

\* User.remove of a user a token names, at any point of a request
RemoveTokenUser ==
  \E username \in TokenUsers :
    Called("User.remove", username, <<>>, UserRemove(db, username))

\* User.update of the stored is_admin of a user a token names
ChangeIsAdmin ==
  \E username \in TokenUsers, flag \in {JsTrue, JsFalse} :
    LET data == <<[key |-> Ident.isAdmin, value |-> flag]>>
    IN Called("User.update", username, data, UserUpdate(db, username, data))

NextGates ==
  \/ AuthenticateJWT
  \/ EnsureAdmin
  \/ EnsureCorrectUserOrAdmin
  \/ NextGateRequest
  \/ RemoveTokenUser
  \/ ChangeIsAdmin

SpecGates == InitGates /\ [][NextGates]_vars

----------------------------------------------------------------------------
(* Company.create and User.register in flight together: each call gives way
   to the others at its awaits, between its two statements *)

\* the calls as they start: the method, its argument, how far it has come
Starts ==
  {[op |-> "Company.create", data |-> d, at |-> "start", out |-> Return(Undefined)] :
     d \in NewCompanies}
    \cup
  {[op |-> "User.register", data |-> d, at |-> "start", out |-> Return(Undefined)] :
     d \in NewUsers}

InitConcurrent ==
  /\ NoSqlCall
  /\ NoRequest
  /\ NoRoute
  /\ db = InitialDb
  /\ lastCall = NoCall
  /\ ops = 0
  /\ running \in [1..MaxConcurrent -> Starts]

DuplicateCheckOf(call) ==
  IF call.op = "Company.create" THEN CompanyDuplicateCheck(call.data)
  ELSE UserDuplicateCheck(call.data)

InsertOf(call) ==
  IF call.op = "Company.create" THEN CompanyInsert(call.data) ELSE UserInsert(call.data)

\* the call has come to its end with this outcome
Ended(call, out) == [call EXCEPT !.at = "done", !.out = out]

\* const duplicateCheck = await db.query(...);
\* if (duplicateCheck.rows[0]) throw new BadRequestError(...)
AwaitDuplicateCheck ==
  /\ \E i \in DOMAIN running :
       /\ running[i].at = "start"
       /\ LET checked == Execute(db, DuplicateCheckOf(running[i]))
          IN running' =
               [running EXCEPT ![i] =
                  IF checked.failed THEN Ended(@, Throw("DatabaseError"))
                  ELSE IF Duplicate(checked.rows) THEN Ended(@, Throw("BadRequestError"))
                  ELSE [@ EXCEPT !.at = "checked"]]
  /\ UNCHANGED <<db, lastCall, ops>>
  /\ UNCHANGED sqlVars
  /\ UNCHANGED authVars
  /\ UNCHANGED routeVars

\* const result = await db.query(INSERT ...); return result.rows[0], after
\* the await of bcrypt.hash in User.register. When a row with the key was
\* stored since the check, a table with a unique key rejects the statement
\* and db.query throws; a table without one stores the second row
AwaitInsert ==
  /\ \E i \in DOMAIN running :
       /\ running[i].at = "checked"
       /\ LET insert == InsertOf(running[i])
              inserted == Execute(db, insert)
              stored == \E r \in db[insert.table] :
                          r[insert.cols[1]] = InsertedRow(insert)[insert.cols[1]]
          IN \/ /\ stored \/ inserted.failed
                /\ db' = db
                /\ running' = [running EXCEPT ![i] = Ended(@, Throw("DatabaseError"))]
             \/ /\ ~inserted.failed
                /\ db' = inserted.db
                /\ running' = [running EXCEPT ![i] = Ended(@, Return(inserted.rows[1]))]
  /\ UNCHANGED <<lastCall, ops>>
  /\ UNCHANGED sqlVars
  /\ UNCHANGED authVars
  /\ UNCHANGED routeVars

NextConcurrent ==
  \/ AwaitDuplicateCheck
  \/ AwaitInsert

SpecConcurrent == InitConcurrent /\ [][NextConcurrent]_vars

----------------------------------------------------------------------------
(* Results of the observed calls *)

Outcomes == {returned[c].out : c \in DOMAIN returned}

Returns == {out \in Outcomes : out.kind = "return"}

----------------------------------------------------------------------------
(* Properties of sqlForPartialUpdate *)

\* C1: whatever the mapping table, a call with a dataToUpdate without keys
\* throws BadRequestError and yields neither a clause nor values.
C1_EmptyDataRejected ==
  dataToUpdate = <<>> =>
    \A out \in Outcomes :
      /\ out.kind = "throw"
      /\ out.error = "BadRequestError"
      /\ "setCols" \notin DOMAIN out
      /\ "values" \notin DOMAIN out

C1_Witness ==
  /\ dataToUpdate = <<>>
  /\ DOMAIN jsToSql # {}
  /\ Len(returned) >= 1

\* C2: for non-empty dataToUpdate the i-th of the fragments joined by ", "
\* is "<name_i>"=$i, where name_i comes from the i-th key, and values[i] is
\* the value of the i-th key.
C2_PositionalBinding ==
  dataToUpdate # <<>> =>
    \A out \in Outcomes :
      /\ out.kind = "return"
      /\ LET frags == FragmentsOf(out.setCols)
         IN /\ Len(frags) = Len(dataToUpdate)
            /\ Join(frags, <<",", " ">>) = out.setCols
            /\ \A i \in 1..Len(frags) :
                 LET k == dataToUpdate[i].key
                 IN /\ IsFragment(frags[i])
                    /\ FragmentPlaceholder(frags[i]) = i
                    /\ FragmentColumn(frags[i]) \in
                         {k} \cup {jsToSql[x] : x \in {k} \cap DOMAIN jsToSql}
                    /\ out.values[i] = dataToUpdate[i].value

C2_Witness ==
  /\ Len(dataToUpdate) = 3
  /\ dataToUpdate[1].value # dataToUpdate[3].value
  /\ dataToUpdate[2].key \in DOMAIN jsToSql
  /\ Returns # {}

\* C3: for non-empty dataToUpdate the clause has as many fragments as
\* values has elements and as dataToUpdate has keys.
C3_CountsAgree ==
  dataToUpdate # <<>> =>
    \A out \in Outcomes :
      /\ out.kind = "return"
      /\ Len(FragmentsOf(out.setCols)) = Len(out.values)
      /\ Len(out.values) = Len(ObjectKeys(dataToUpdate))

C3_Witness ==
  /\ Len(dataToUpdate) = 2
  /\ \E out \in Returns : Len(out.values) = 2

\* C4: the column of a key's fragment is the table's entry for the key
\* whenever the table has one, whatever string it holds, and the key itself
\* exactly when the table has none.
C4_EntryAlwaysUsed ==
  \A out \in Returns :
    LET frags == FragmentsOf(out.setCols)
    IN \A i \in 1..Len(frags) :
         LET k == dataToUpdate[i].key
         IN FragmentColumn(frags[i]) =
              IF k \in DOMAIN jsToSql THEN jsToSql[k] ELSE k

RECURSIVE SameKeys(_)
SameKeys(data) ==
  IF data = <<>> THEN {<<>>}
  ELSE {<<[key |-> data[1].key, value |-> v]>> \o rest :
          v \in FieldValues, rest \in SameKeys(Tail(data))}

\* C6: values[i] is the supplied value itself, null included, and the clause
\* does not depend on the values: the same keys in the same order with other
\* values give the same setCols.
C6_ValuesNeverInClause ==
  \A out \in Returns :
    /\ \A i \in 1..Len(dataToUpdate) :
         out.values[i] = dataToUpdate[i].value
    /\ \A other \in SameKeys(dataToUpdate) :
         sqlForPartialUpdate(other, jsToSql).setCols = out.setCols

C6_Witness ==
  /\ Returns # {}
  /\ \E i, j \in 1..Len(dataToUpdate) :
       dataToUpdate[i].value = Null /\ dataToUpdate[j].value.t = "string"

----------------------------------------------------------------------------
(* Properties of the middleware *)

\* the arguments of the calls of next made by one middleware for this request
NextArgsBy(name) ==
  LET mine == SelectSeq(nextCalls, LAMBDA c : c.by = name)
  IN [i \in 1..Len(mine) |-> mine[i].err]

GateDone(name) == gate = name /\ pc \in {"handler", "error"}

C8_EnsureAdmin ==
  GateDone("ensureAdmin") =>
    LET args == NextArgsBy("ensureAdmin")
    IN /\ Len(args) = 1
       /\ args[1] \in {"none", "UnauthorizedError"}
       /\ (args[1] = "none") <=>
            /\ resLocalsUser.t = "object"
            /\ Get(resLocalsUser, "isAdmin") = JsTrue

C8_Witness ==
  /\ GateDone("ensureAdmin")
  /\ resLocalsUser.t = "object"
  /\ "isAdmin" \notin DOMAIN resLocalsUser.p
  /\ pc = "error"

\* C9: whatever the authorization header (none, not a token, a token signed
\* with another key, a valid token), authenticateJWT calls next exactly once
\* and with no argument.
C9_AuthenticateNeverFails ==
  pc \in {"gate", "handler", "error"} =>
    NextArgsBy("authenticateJWT") = <<"none">>

C9_Witness ==
  /\ pc = "gate"
  /\ req.headers.t = "object"
  /\ "authorization" \in DOMAIN req.headers.p
  /\ \E i \in 1..Len(req.headers.p.authorization.s) :
       req.headers.p.authorization.s[i] = "tForged"
  /\ Len(nextCalls) = 1

\* tokens that verify against SECRET_KEY
GoodTokens ==
  {tok \in Tokens : /\ TokenTable[tok].wellFormed
                    /\ TokenTable[tok].key = SECRET_KEY
                    /\ ~TokenTable[tok].expired}

\* the header values that carry the token: the token, optionally after
\* "Bearer " or "bearer ", with spaces around it
Carrying(tok) ==
  {scheme \o before \o <<tok>> \o after :
     scheme \in {<<>>, <<"B", "e", "a", "r", "e", "r", " ">>,
                 <<"b", "e", "a", "r", "e", "r", " ">>},
     before \in Pads, after \in Pads}

CarriedTokens ==
  IF req.headers.t = "object" /\ "authorization" \in DOMAIN req.headers.p
  THEN {tok \in GoodTokens : req.headers.p.authorization.s \in Carrying(tok)}
  ELSE {}

\* C10: after authenticateJWT res.locals.user is set exactly when the
\* request carried a token that verifies against SECRET_KEY, and it is then
\* the payload of that token; otherwise it stays unset.
C10_IdentityResolution ==
  pc \in {"gate", "handler", "error"} =>
    /\ (resLocalsUser.t # "undefined") <=> (CarriedTokens # {})
    /\ \A tok \in CarriedTokens : resLocalsUser = TokenTable[tok].payload

C10_Witness ==
  /\ pc = "gate"
  /\ "tU1" \in CarriedTokens
  /\ req.headers.p.authorization.s[1] = "b"
  /\ resLocalsUser = TokenTable["tU1"].payload

----------------------------------------------------------------------------
(* Properties of the model methods, read off the last call *)

Updates == {"Company.update", "User.update"}

CompanyOps == {"Company.create", "Company.get", "Company.update", "Company.remove"}

\* the table the last call works on and the column that holds its key
TableOf(op) == IF op \in CompanyOps THEN "companies" ELSE "users"

KeyColumn(op) == IF op \in CompanyOps THEN Ident.handle ELSE Ident.username

\* the rows of the table that had the key of the last call before it
RowsBefore ==
  {r \in lastCall.before[TableOf(lastCall.op)] :
     r[KeyColumn(lastCall.op)] = lastCall.key}

Failed(error) == lastCall.out.kind = "throw" /\ lastCall.out.error = error

Succeeded == lastCall.out.kind = "return"

\* C15: Company.update and User.update with empty data fail with
\* BadRequestError, issue no statement and leave the store as it was, for a
\* key that is stored as for one that is not
C15_EmptyUpdateRejected ==
  (lastCall.op \in Updates /\ Len(lastCall.arg) = 0) =>
    /\ Failed("BadRequestError")
    /\ lastCall.queries = <<>>
    /\ db = lastCall.before

C15_Witness ==
  /\ lastCall.op = "User.update"
  /\ Len(lastCall.arg) = 0
  /\ RowsBefore = {}
  /\ Failed("BadRequestError")

\* C16: get, update with non-empty data and remove, of Company and of User,
\* fail with NotFoundError when no row has the key, and the store after the
\* failed call is the store before it
C16_NotFound ==
  (/\ lastCall.op \in {"Company.get", "Company.update", "Company.remove",
                       "User.get", "User.update", "User.remove"}
   /\ lastCall.op \in Updates => Len(lastCall.arg) > 0
   /\ RowsBefore = {}) =>
    /\ Failed("NotFoundError")
    /\ db = lastCall.before

C16_Witness ==
  /\ lastCall.op = "Company.update"
  /\ Len(lastCall.arg) > 0
  /\ RowsBefore = {}
  /\ Failed("NotFoundError")
  /\ ops = 2
  /\ db # InitialDb

\* the column an update field is documented to change
DocumentedColumn(field) ==
  CASE field = Ident.numEmployees -> Ident.num_employees
    [] field = Ident.logoUrl -> Ident.logo_url
    [] field = Ident.firstName -> Ident.first_name
    [] field = Ident.lastName -> Ident.last_name
    [] field = Ident.isAdmin -> Ident.is_admin
    [] OTHER -> field

\* the row an update is to leave behind: the named columns hold the values of
\* the data as the method sent them, every other column is as before
Expected(row) ==
  [c \in DOMAIN row |->
     IF \E i \in DOMAIN lastCall.data : DocumentedColumn(lastCall.data[i].key) = c
     THEN lastCall.data[CHOOSE i \in DOMAIN lastCall.data :
                          DocumentedColumn(lastCall.data[i].key) = c].value
     ELSE row[c]]

\* the returned record shows the stored row under the names of the API
Reflects(record, row) ==
  IF lastCall.op = "Company.update"
  THEN /\ DOMAIN record.p = {"handle", "name", "description", "numEmployees", "logoUrl"}
       /\ record.p.handle = row[Ident.handle]
       /\ record.p.name = row[Ident.name]
       /\ record.p.description = row[Ident.description]
       /\ record.p.numEmployees = row[Ident.num_employees]
       /\ record.p.logoUrl = row[Ident.logo_url]
  ELSE /\ DOMAIN record.p = {"username", "firstName", "lastName", "email", "isAdmin"}
       /\ record.p.username = row[Ident.username]
       /\ record.p.firstName = row[Ident.first_name]
       /\ record.p.lastName = row[Ident.last_name]
       /\ record.p.email = row[Ident.email]
       /\ record.p.isAdmin = row[Ident.is_admin]

\* C17: a successful update changes the named columns of the one row with the
\* key and nothing else: the other columns, the key, the other rows and the
\* other tables are as before, and the returned record shows the stored row
C17_UpdateFrame ==
  (lastCall.op \in Updates /\ Succeeded) =>
    /\ Cardinality(RowsBefore) = 1
    /\ \A row \in RowsBefore :
         /\ Expected(row)[KeyColumn(lastCall.op)] = lastCall.key
         /\ db[TableOf(lastCall.op)] =
              (lastCall.before[TableOf(lastCall.op)] \ {row}) \cup {Expected(row)}
         /\ Reflects(lastCall.out.value, Expected(row))
    /\ \A t \in TableNames \ {TableOf(lastCall.op)} : db[t] = lastCall.before[t]

C17_Witness ==
  /\ lastCall.op = "User.update"
  /\ Succeeded
  /\ Len(lastCall.arg) = 2
  /\ db # lastCall.before
  /\ Cardinality(db.users) >= 2

NoSharedKey(table, keyColumn) ==
  \A r1, r2 \in db[table] : r1[keyColumn] = r2[keyColumn] => r1 = r2

\* C18: Company.create and User.register with a key that is stored fail with
\* BadRequestError and leave the store as it was; whatever calls came before,
\* no two companies share a handle and no two users share a username
C18_UniqueKeys ==
  /\ (lastCall.op \in {"Company.create", "User.register"} /\ RowsBefore # {}) =>
       (Failed("BadRequestError") /\ db = lastCall.before)
  /\ NoSharedKey("companies", Ident.handle)
  /\ NoSharedKey("users", Ident.username)

C18_Witness ==
  /\ lastCall.op = "Company.create"
  /\ RowsBefore # {}
  /\ Failed("BadRequestError")
  /\ ops = 2
  /\ Cardinality(db.companies) = 2

CarriesPassword(data) == \E i \in DOMAIN data : data[i].key = Ident.password

\* C19: every stored password is a bcrypt hash and not the plaintext that was
\* supplied, an update whose data carries a password stores the hash of that
\* password, and no method returns a record with a password field
C19_PasswordsHashed ==
  /\ \A u \in db.users : IsBcryptHash(u[Ident.password])
  /\ (lastCall.op = "User.update" /\ Succeeded /\ CarriesPassword(lastCall.arg)) =>
       \A u \in db.users :
         u[Ident.username] = lastCall.key =>
           /\ u[Ident.password] = BcryptHash(DataGet(lastCall.arg, Ident.password))
           /\ u[Ident.password] # DataGet(lastCall.arg, Ident.password)
  /\ (Succeeded /\ lastCall.out.value.t = "object") =>
       "password" \notin DOMAIN lastCall.out.value.p

\* C20: after a successful update of a password to p, authenticate with p
\* returns the record of that user without a password field; authenticate
\* fails with UnauthorizedError when the username is not stored or the
\* password is not the one behind the stored hash
C20_NewPasswordAuthenticates ==
  /\ (lastCall.op = "User.update" /\ Succeeded /\ CarriesPassword(lastCall.arg)) =>
       \A again \in {UserAuthenticate(db, lastCall.key,
                                      DataGet(lastCall.arg, Ident.password))} :
         /\ again.out.kind = "return"
         /\ again.out.value.p.username = lastCall.key
         /\ "password" \notin DOMAIN again.out.value.p
  /\ (/\ lastCall.op = "User.authenticate"
      /\ \A row \in RowsBefore : row[Ident.password] # BcryptHash(lastCall.arg)) =>
       Failed("UnauthorizedError")

----------------------------------------------------------------------------
(* Properties of the routes *)

\* the token a request carries, read off its authorization header
SentToken ==
  IF req.headers.t = "object" /\ "authorization" \in DOMAIN req.headers.p
  THEN req.headers.p.authorization.s[Len(req.headers.p.authorization.s)]
  ELSE "none"

\* tokens this server signed that have not expired
ValidTokens ==
  {tok \in Tokens : /\ TokenTable[tok].wellFormed
                    /\ TokenTable[tok].key = SECRET_KEY
                    /\ ~TokenTable[tok].expired}

AdminTokens ==
  {tok \in ValidTokens : /\ "isAdmin" \in DOMAIN TokenTable[tok].payload.p
                         /\ TokenTable[tok].payload.p.isAdmin = JsTrue}

\* the token names the user of the :username parameter
OwnToken ==
  /\ SentToken \in ValidTokens
  /\ "username" \in DOMAIN req.params.p
  /\ TokenTable[SentToken].payload.p.username = req.params.p.username

GateNames == {"ensureLoggedIn", "ensureAdmin", "ensureCorrectUserOrAdmin"}

\* a gate has passed an error to next for the request at hand
Denied == \E i \in DOMAIN nextCalls : nextCalls[i].by \in GateNames /\ nextCalls[i].err # "none"

\* the step is one of the request at hand, not the arrival of the next one
SameRequest == pc' # "received"

C13_CompanyRoutesForUsers ==
  (/\ served = 0
   /\ pc = "sent"
   /\ SentToken = "tU1"
   /\ \/ route = "POST /companies" /\ reqBody = NewCompanyBody(JsString(Company2))
      \/ /\ route = "PATCH /companies/:handle"
         /\ req.params.p.handle = JsString(Company1)
         /\ Len(reqBody) = 1 /\ reqBody[1].value.t = "string"
      \/ /\ route = "DELETE /companies/:handle"
         /\ req.params.p.handle = JsString(Company1)) =>
    CASE route = "POST /companies" ->
           /\ res.status = 201
           /\ res.body = JsObject([company |-> reqBody])
      [] route = "PATCH /companies/:handle" ->
           /\ res.status = 200
           /\ res.body.p.company.p.name = reqBody[1].value
      [] OTHER ->
           /\ res.status = 200
           /\ res.body = JsObject([deleted |-> JsString(Company1)])

\* C14: on the routes of one user, the request reaches the handler exactly
\* when its valid token names the user of :username or is the token of an
\* admin; any other request, with or without a token, is answered 401
C14_UserRoutes ==
  [][(route \in UserRoutes) =>
       /\ pc = "gate" =>
            (pc' = "handler" <=> (SentToken \in AdminTokens \/ OwnToken))
       /\ (~(SentToken \in AdminTokens \/ OwnToken) /\ SameRequest) =>
            /\ pc' # "handler"
            /\ pc' = "sent" => res'.status = 401]_vars

C14_Witness ==
  /\ route = "DELETE /users/:username"
  /\ SentToken = "tU1"
  /\ req.params.p.username = JsString(User1)
  /\ pc = "sent"
  /\ res.status = 200
  /\ \A u \in db.users : u[Ident.username] # JsString(User1)

----------------------------------------------------------------------------
(* Properties of the route that applies to a job *)

\* the request at hand is an answered POST /users/:username/jobs/:id that
\* passed its gate, so the last call is the one its handler made
Applied ==
  /\ route = "POST /users/:username/jobs/:id"
  /\ pc = "sent"
  /\ (SentToken \in AdminTokens \/ OwnToken)
  /\ lastCall.op = "User.applyToJob"

UserStored == \E u \in lastCall.before.users : u[Ident.username] = req.params.p.username

JobStored == \E j \in lastCall.before.jobs : j[Ident.id] = UnaryPlus(req.params.p.id)

\* C21: POST /users/:username/jobs/:id from an admin or from the user of
\* :username, for a stored user and a stored job, adds the one application
\* (:id, :username) to the store and answers 200 {applied: jobId}
C21_ApplyRecorded ==
  (Applied /\ UserStored /\ JobStored) =>
    /\ res.status = 200
    /\ res.body = JsObject([applied |-> UnaryPlus(req.params.p.id)])
    /\ db.applications =
         lastCall.before.applications \cup
           {(Ident.job_id :> UnaryPlus(req.params.p.id))
              @@ (Ident.username :> req.params.p.username)}
    /\ \A t \in TableNames \ {"applications"} : db[t] = lastCall.before[t]

\* C22: applying for a job id no job has, or for a username no user has,
\* fails with NotFoundError, which the route answers 404, and records no
\* application
C22_ApplyNotFound ==
  (Applied /\ ~(UserStored /\ JobStored)) =>
    /\ Failed("NotFoundError")
    /\ res.status = 404
    /\ db = lastCall.before

----------------------------------------------------------------------------
(* Properties of GET /companies *)

\* C23: GET /companies with minEmployees above maxEmployees is answered, and
\* the answer is 400: once its handler has run the request is not left
\* without a response
C23_MinAboveMaxRejected ==
  (/\ route = "GET /companies"
   /\ MinAboveMax(req.query)
   /\ pc \notin {"received", "handler", "error"}) =>
    (pc = "sent" /\ res.status = 400)

\* the letter in lower case
Lower(c) == CASE c = "A" -> "a" [] c = "B" -> "b" [] OTHER -> c

\* str contains sub, whatever the case of the letters
ContainsIgnoreCase(str, sub) ==
  \E i \in 0..(Len(str) - Len(sub)) :
    \A j \in 1..Len(sub) : Lower(str[i + j]) = Lower(sub[j])

\* the company row matches the filters of the query
Passes(row, q) ==
  /\ "minEmployees" \in DOMAIN q.p =>
       GreaterThan(row[Ident.num_employees], q.p.minEmployees)
         \/ row[Ident.num_employees] = q.p.minEmployees
  /\ "maxEmployees" \in DOMAIN q.p =>
       GreaterThan(q.p.maxEmployees, row[Ident.num_employees])
         \/ row[Ident.num_employees] = q.p.maxEmployees
  /\ "name" \in DOMAIN q.p => ContainsIgnoreCase(row[Ident.name].s, q.p.name.s)

\* C24: the companies GET /companies answers with are those of the store that
\* match the filters of the query, each once, in the order of their names;
\* without a filter they are all the companies
C24_SearchFilters ==
  (route = "GET /companies" /\ pc = "sent" /\ res.status = 200) =>
    LET list == res.body.p.companies.p
    IN /\ {list[i] : i \in DOMAIN list} =
            {Project(r, CompanyReturning) : r \in {x \in db.companies : Passes(x, req.query)}}
       /\ \A i, j \in DOMAIN list :
            i < j => /\ list[i] # list[j]
                     /\ ~TextBefore(list[j].p.name.s, list[i].p.name.s)

----------------------------------------------------------------------------
(* Properties of every handler *)

\* the model method was called in this step of the handler
ModelCalled == ops' = ops + 1

\* C25: the step of a handler ends in one of two ways and in no other: a
\* response is sent and next is not called, or next is called once with the
\* error that was raised (BadRequestError of the validation when no model
\* method ran, the error the model method threw when one did) and the
\* handler sends nothing; an error the model threw is never answered as a
\* success
C25_OneOutcome ==
  [][(pc = "handler") =>
       /\ pc' \in {"sent", "error"}
       /\ pc' = "sent" =>
            /\ res'.status # 0
            /\ nextCalls' = nextCalls
            /\ ModelCalled => lastCall'.out.kind = "return"
       /\ pc' = "error" =>
            /\ res' = res
            /\ ModelCalled => lastCall'.out.kind = "throw"
            /\ nextCalls' =
                 Append(nextCalls,
                        NextCall(route, IF ModelCalled THEN lastCall'.out.error
                                        ELSE "BadRequestError"))]_vars

\* the body of the request at hand fails the schema of its route
InvalidBody ==
  CASE route = "POST /companies" -> ~ValidNew(reqBody, CompanyNewSchema)
    [] route = "POST /jobs" -> ~ValidNew(reqBody, JobNewSchema)
    [] route = "POST /users" -> ~ValidNew(reqBody, UserNewSchema)
    [] route = "PATCH /companies/:handle" -> ~ValidUpdate(reqBody, CompanyUpdateSchema)
    [] route = "PATCH /jobs/:id" -> ~ValidUpdate(reqBody, JobUpdateSchema)
    [] route = "PATCH /users/:username" -> ~ValidUpdate(reqBody, UserUpdateSchema)
    [] OTHER -> FALSE

----------------------------------------------------------------------------
(* Properties of the statements of the model methods *)

\* the placeholders of the SET clause of the statement, in the order written
SetPlaceholders(q) ==
  LET asg == Assignments(q.set) IN [i \in DOMAIN asg |-> asg[i].ph]

\* C27: the UPDATE of Company.update and User.update over n fields numbers
\* its SET clause $1..$n, puts $(n+1) in its WHERE clause and binds the n
\* values of the data, in their order, followed by the key: the placeholder of
\* the key is none of the SET clause and every placeholder has its one value
C27_KeyPlaceholder ==
  (lastCall.op \in Updates /\ Len(lastCall.arg) > 0) =>
    LET n == Len(lastCall.data)
        q == lastCall.queries[1]
    IN /\ Len(lastCall.queries) = 1
       /\ q.stmt = "UPDATE"
       /\ q.wherePh = <<"$">> \o Decimal(n + 1)
       /\ SetPlaceholders(q) = [i \in 1..n |-> i]
       /\ \A i \in 1..n : SetPlaceholders(q)[i] # PlaceholderOf(q.wherePh)
       /\ q.params = [i \in 1..(n + 1) |->
                        IF i <= n THEN lastCall.data[i].value ELSE lastCall.key]
       /\ {SetPlaceholders(q)[i] : i \in 1..n} \cup {PlaceholderOf(q.wherePh)}
            = DOMAIN q.params

C27_Witness ==
  /\ lastCall.op = "User.update"
  /\ Len(lastCall.arg) = 2
  /\ Succeeded
  /\ lastCall.queries[1].wherePh = <<"$", "3">>
  /\ lastCall.queries[1].params[3] = JsString(User1)
  /\ lastCall.data # lastCall.arg

\* no row of the table holds the key
AbsentIn(d, table, keyColumn, key) == \A r \in d[table] : r[keyColumn] # key

\* the calls that look a row up by its key
Lookups ==
  {"Company.get", "Company.update", "Company.remove",
   "User.get", "User.update", "User.remove"}

\* C28: a successful remove leaves no row with its key; while no row has a
\* key, get, update with non-empty data and remove of that key fail with
\* NotFoundError, and the only call after which a row has the key again is a
\* successful Company.create (User.register) of that key
C28_RemovedStaysGone ==
  [][LET op == lastCall'.op
         key == lastCall'.key
     IN /\ (op \in {"Company.remove", "User.remove"} /\ lastCall'.out.kind = "return") =>
             AbsentIn(db', TableOf(op), KeyColumn(op), key)
        /\ (/\ op \in Lookups
            /\ op \in Updates => Len(lastCall'.arg) > 0
            /\ AbsentIn(db, TableOf(op), KeyColumn(op), key)) =>
             /\ lastCall'.out = Throw("NotFoundError")
             /\ AbsentIn(db', TableOf(op), KeyColumn(op), key)
        /\ \A h \in Handles :
             (AbsentIn(db, "companies", Ident.handle, h)
                /\ ~AbsentIn(db', "companies", Ident.handle, h)) =>
               (op = "Company.create" /\ key = h /\ lastCall'.out.kind = "return")
        /\ \A u \in Usernames :
             (AbsentIn(db, "users", Ident.username, u)
                /\ ~AbsentIn(db', "users", Ident.username, u)) =>
               (op = "User.register" /\ key = u /\ lastCall'.out.kind = "return")]_vars

C28_Witness ==
  /\ lastCall.op = "Company.update"
  /\ lastCall.key = JsString(Company1)
  /\ Len(lastCall.arg) > 0
  /\ ~AbsentIn(InitialDb, "companies", Ident.handle, lastCall.key)
  /\ AbsentIn(lastCall.before, "companies", Ident.handle, lastCall.key)
  /\ Failed("NotFoundError")
  /\ ops = 2

----------------------------------------------------------------------------
(* Properties of the middleware against a changing store *)

\* the claims of the token of the request: those of a valid token, else none
TokenClaims ==
  IF SentToken \in ValidTokens THEN TokenTable[SentToken].payload ELSE Undefined

\* the outcome of the gate as the token and the parameters alone give it
PassesByToken ==
  /\ TokenClaims.t = "object"
  /\ \/ TokenClaims.p.isAdmin = JsTrue
     \/ /\ gate = "ensureCorrectUserOrAdmin"
        /\ "username" \in DOMAIN req.params.p
        /\ TokenClaims.p.username = req.params.p.username

\* C29: res.locals.user is the claims of the token and nothing of the store,
\* the gate lets the request through exactly when those claims and the route
\* parameters say so, whatever rows the store holds at that moment, and a
\* change of the store changes nothing of a request
C29_GateIgnoresStore ==
  [][/\ (pc = "received" /\ pc' # pc) => resLocalsUser' = TokenClaims
     /\ (pc = "gate" /\ pc' # pc) =>
          /\ pc' \in {"handler", "error"}
          /\ pc' = "handler" <=> PassesByToken
     /\ (db' # db) => UNCHANGED authVars]_vars

C29_Witness ==
  /\ pc = "handler"
  /\ gate = "ensureCorrectUserOrAdmin"
  /\ SentToken = "tU1"
  /\ req.params.p.username = JsString(User1)
  /\ AbsentIn(db, "users", Ident.username, JsString(User1))
  /\ \E u \in db.users : u[Ident.username] = JsString(Admin) /\ u[Ident.is_admin] = JsFalse
  /\ served = 1

----------------------------------------------------------------------------
(* Properties of the calls in flight together *)

\* the key the call is to store a row for
KeyOf(call) ==
  IF call.op = "Company.create" THEN Get(call.data, "handle")
  ELSE Get(call.data, "username")

\* C30: of two calls of Company.create for one handle, or of User.register
\* for one username, that have both ended, at most one has returned and the
\* other has failed with BadRequestError, and no two rows of a table share a
\* key, however their statements interleaved
C30_OneCreateWins ==
  /\ NoSharedKey("companies", Ident.handle)
  /\ NoSharedKey("users", Ident.username)
  /\ \A i, j \in DOMAIN running :
       (/\ i # j
        /\ running[i].op = running[j].op
        /\ KeyOf(running[i]) = KeyOf(running[j])
        /\ running[i].at = "done" /\ running[j].at = "done"
        /\ running[i].out.kind = "return") =>
         running[j].out = Throw("BadRequestError")

====
